---------------------------- MODULE Spec2Model ----------------------------
(***************************************************************************)
(* Verification model of the crypto-news aggregation core:                 *)
(*   - src/src/rate_limit.py   per-host token bucket (RateLimiter)         *)
(*   - src/src/dedupe.py       DedupeIndex                                 *)
(*   - src/src/confirm.py      cluster_news                                *)
(*   - src/api/news_fetch.py   fetch_news ingestion run                    *)
(* Every component has its own specification over the shared variables.    *)
(***************************************************************************)
EXTENDS Integers, Sequences, FiniteSets, TLC

(***************************************************************************)
(* Generic helpers                                                         *)
(***************************************************************************)
Min(a, b) == IF a <= b THEN a ELSE b

Max(a, b) == IF a >= b THEN a ELSE b

Abs(a) == IF a >= 0 THEN a ELSE -a

(***************************************************************************)
(* STRINGS                                                                 *)
(*                                                                         *)
(* A Python str is a sequence of one-character strings.  CharCode gives    *)
(* the code point of the characters the model uses (ASCII).                *)
(***************************************************************************)
CharCode ==
  "\t" :> 9 @@ "\n" :> 10 @@ " " :> 32 @@ "!" :> 33 @@ "#" :> 35 @@
  "$" :> 36 @@ "%" :> 37 @@ "&" :> 38 @@ "'" :> 39 @@ "(" :> 40 @@
  ")" :> 41 @@ "*" :> 42 @@ "+" :> 43 @@ "," :> 44 @@ "-" :> 45 @@
  "." :> 46 @@ "/" :> 47 @@ "0" :> 48 @@ "1" :> 49 @@ "2" :> 50 @@
  "3" :> 51 @@ "4" :> 52 @@ "5" :> 53 @@ "6" :> 54 @@ "7" :> 55 @@
  "8" :> 56 @@ "9" :> 57 @@ ":" :> 58 @@ ";" :> 59 @@ "<" :> 60 @@
  "=" :> 61 @@ ">" :> 62 @@ "?" :> 63 @@ "@" :> 64 @@ "A" :> 65 @@
  "B" :> 66 @@ "C" :> 67 @@ "D" :> 68 @@ "E" :> 69 @@ "F" :> 70 @@
  "G" :> 71 @@ "H" :> 72 @@ "I" :> 73 @@ "J" :> 74 @@ "K" :> 75 @@
  "L" :> 76 @@ "M" :> 77 @@ "N" :> 78 @@ "O" :> 79 @@ "P" :> 80 @@
  "Q" :> 81 @@ "R" :> 82 @@ "S" :> 83 @@ "T" :> 84 @@ "U" :> 85 @@
  "V" :> 86 @@ "W" :> 87 @@ "X" :> 88 @@ "Y" :> 89 @@ "Z" :> 90 @@
  "[" :> 91 @@ "]" :> 93 @@ "^" :> 94 @@ "_" :> 95 @@ 
  "a" :> 97 @@ "b" :> 98 @@ "c" :> 99 @@ "d" :> 100 @@ "e" :> 101 @@
  "f" :> 102 @@ "g" :> 103 @@ "h" :> 104 @@ "i" :> 105 @@ "j" :> 106 @@
  "k" :> 107 @@ "l" :> 108 @@ "m" :> 109 @@ "n" :> 110 @@ "o" :> 111 @@
  "p" :> 112 @@ "q" :> 113 @@ "r" :> 114 @@ "s" :> 115 @@ "t" :> 116 @@
  "u" :> 117 @@ "v" :> 118 @@ "w" :> 119 @@ "x" :> 120 @@ "y" :> 121 @@
  "z" :> 122 @@ "{" :> 123 @@ "|" :> 124 @@ "}" :> 125 @@ "~" :> 126

UpperToLower ==
  "A" :> "a" @@ "B" :> "b" @@ "C" :> "c" @@ "D" :> "d" @@ "E" :> "e" @@
  "F" :> "f" @@ "G" :> "g" @@ "H" :> "h" @@ "I" :> "i" @@ "J" :> "j" @@
  "K" :> "k" @@ "L" :> "l" @@ "M" :> "m" @@ "N" :> "n" @@ "O" :> "o" @@
  "P" :> "p" @@ "Q" :> "q" @@ "R" :> "r" @@ "S" :> "s" @@ "T" :> "t" @@
  "U" :> "u" @@ "V" :> "v" @@ "W" :> "w" @@ "X" :> "x" @@ "Y" :> "y" @@
  "Z" :> "z"

\* the characters str.strip() removes and the pattern \s matches
Whitespace == {" ", "\t", "\n"}

\* str.lower() of one character
LowerChar(c) == IF c \in DOMAIN UpperToLower THEN UpperToLower[c] ELSE c

\* str.lower()
Lower(s) == [i \in 1..Len(s) |-> LowerChar(s[i])]

\* s[i:] with i counted from 1
From(s, i) == SubSeq(s, i, Len(s))

\* str.find over a set of characters: the first position >= from holding one
\* of them, 0 when there is none
FindAny(s, set, from) ==
  LET I == {i \in from..Len(s) : s[i] \in set}
  IN IF I = {} THEN 0 ELSE CHOOSE i \in I : \A j \in I : i <= j

\* str.rfind of one character, 0 when absent
RFind(s, c) ==
  LET I == {i \in 1..Len(s) : s[i] = c}
  IN IF I = {} THEN 0 ELSE CHOOSE i \in I : \A j \in I : i >= j

\* str.lstrip(chars) / str.rstrip(chars) / str.strip()
RECURSIVE LStripSet(_, _)
LStripSet(s, set) ==
  IF s # <<>> /\ s[1] \in set THEN LStripSet(Tail(s), set) ELSE s

RECURSIVE RStripSet(_, _)
RStripSet(s, set) ==
  IF s # <<>> /\ s[Len(s)] \in set
    THEN RStripSet(SubSeq(s, 1, Len(s) - 1), set)
    ELSE s

Strip(s) == RStripSet(LStripSet(s, Whitespace), Whitespace)

\* str < str: lexicographic order by code point
RECURSIVE StrLess(_, _)
StrLess(a, b) ==
  IF b = <<>> THEN FALSE
  ELSE IF a = <<>> THEN TRUE
  ELSE IF a[1] # b[1] THEN CharCode[a[1]] < CharCode[b[1]]
  ELSE StrLess(Tail(a), Tail(b))

\* str.split(sep): the pieces between the occurrences of one character
RECURSIVE SplitOn(_, _)
SplitOn(s, c) ==
  LET i == FindAny(s, {c}, 1)
  IN IF i = 0 THEN <<s>>
     ELSE <<SubSeq(s, 1, i - 1)>> \o SplitOn(From(s, i + 1), c)

\* sep.join(parts)
RECURSIVE Join(_, _)
Join(parts, sep) ==
  IF parts = <<>> THEN <<>>
  ELSE IF Len(parts) = 1 THEN parts[1]
  ELSE parts[1] \o sep \o Join(Tail(parts), sep)

\* sorted(list of str), as a stable insertion sort
RECURSIVE InsertStr(_, _)
InsertStr(x, sorted) ==
  IF sorted = <<>> THEN <<x>>
  ELSE IF StrLess(x, sorted[1]) THEN <<x>> \o sorted
  ELSE <<sorted[1]>> \o InsertStr(x, Tail(sorted))

RECURSIVE SortStrs(_)
SortStrs(s) ==
  IF s = <<>> THEN <<>>
  ELSE InsertStr(s[Len(s)], SortStrs(SubSeq(s, 1, Len(s) - 1)))

(***************************************************************************)
(* NORMALIZER  (src/src/normalization.py)                                  *)
(***************************************************************************)

\* WHITESPACE_RE.sub(" ", value): every run of whitespace becomes one space
RECURSIVE CollapseWhitespace(_)
CollapseWhitespace(s) ==
  IF s = <<>> THEN <<>>
  ELSE IF s[1] \in Whitespace
    THEN <<" ">> \o CollapseWhitespace(LStripSet(s, Whitespace))
    ELSE <<s[1]>> \o CollapseWhitespace(Tail(s))

normalize_whitespace(value) == Strip(CollapseWhitespace(value))

\* where the match of <[^>]+> that starts at s[1] = "<" ends: the first ">",
\* provided at least one character stands between; 0 when there is no match
TagEnd(s) ==
  LET j == FindAny(s, {">"}, 2)
  IN IF s # <<>> /\ s[1] = "<" /\ j >= 3 THEN j ELSE 0

\* HTML_TAG_RE.sub("", value): leftmost non-overlapping matches are removed
RECURSIVE strip_html(_)
strip_html(value) ==
  IF value = <<>> THEN <<>>
  ELSE IF TagEnd(value) > 0 THEN strip_html(From(value, TagEnd(value) + 1))
  ELSE <<value[1]>> \o strip_html(Tail(value))

\* a normalize_title that collapses and trims before it removes the tags
normalize_title_reversed(value) == strip_html(normalize_whitespace(value))

normalize_title(value) == normalize_whitespace(strip_html(value))

\* ---- urllib.parse as canonicalize_url uses it (CPython 3.11) ----

Str_http == <<"h", "t", "t", "p">>

Str_https == <<"h", "t", "t", "p", "s">>

Str_ftp == <<"f", "t", "p">>

\* urllib.parse.uses_netloc / uses_params, cut to the schemes of the model
UsesNetloc == {<<>>, Str_ftp, Str_http, Str_https}

UsesParams == {<<>>, Str_ftp, Str_http, Str_https}

IsAsciiAlpha(c) == CharCode[c] \in (65..90) \cup (97..122)

IsDigit(c) == CharCode[c] \in 48..57

\* urllib.parse.scheme_chars
IsSchemeChar(c) == IsAsciiAlpha(c) \/ IsDigit(c) \/ c \in {"+", "-", "."}

\* urllib.parse._ALWAYS_SAFE: what quote_plus leaves as it is
IsAlwaysSafe(c) == IsAsciiAlpha(c) \/ IsDigit(c) \/ c \in {"_", ".", "-", "~"}

HexDigits == <<"0", "1", "2", "3", "4", "5", "6", "7", "8", "9",
               "A", "B", "C", "D", "E", "F">>

\* the value of a hexadecimal digit (either case), -1 for any other character
HexVal(c) ==
  LET I == {i \in 1..16 : HexDigits[i] = c \/ LowerChar(HexDigits[i]) = c}
  IN IF I = {} THEN -1 ELSE (CHOOSE i \in I : TRUE) - 1

\* urllib.parse.unquote: %XX becomes the character with that code; a "%" not
\* followed by two hexadecimal digits stays.  Codes outside CharCode (control
\* characters, non-ASCII bytes) are outside the model and stay escaped.
RECURSIVE unquote(_)
unquote(s) ==
  IF s = <<>> THEN <<>>
  ELSE IF /\ s[1] = "%"
          /\ Len(s) >= 3
          /\ HexVal(s[2]) >= 0
          /\ HexVal(s[3]) >= 0
          /\ \E c \in DOMAIN CharCode : CharCode[c] = 16 * HexVal(s[2]) + HexVal(s[3])
    THEN <<CHOOSE c \in DOMAIN CharCode : CharCode[c] = 16 * HexVal(s[2]) + HexVal(s[3])>>
         \o unquote(From(s, 4))
  ELSE <<s[1]>> \o unquote(Tail(s))

\* nv.replace('+', ' ')
PlusToSpace(s) == [i \in 1..Len(s) |-> IF s[i] = "+" THEN " " ELSE s[i]]

\* urllib.parse.quote_plus(s) with safe=''
RECURSIVE quote_plus(_)
quote_plus(s) ==
  IF s = <<>> THEN <<>>
  ELSE (IF IsAlwaysSafe(s[1]) THEN <<s[1]>>
        ELSE IF s[1] = " " THEN <<"+">>
        ELSE <<"%", HexDigits[(CharCode[s[1]] \div 16) + 1],
                    HexDigits[(CharCode[s[1]] % 16) + 1]>>)
       \o quote_plus(Tail(s))

\* urllib.parse.urlsplit, last part: the query is what follows the first "?"
SplitQuery(scheme, netloc, url, fragment) ==
  LET q == FindAny(url, {"?"}, 1)
  IN [scheme |-> scheme, netloc |-> netloc,
      path |-> IF q > 0 THEN SubSeq(url, 1, q - 1) ELSE url,
      query |-> IF q > 0 THEN From(url, q + 1) ELSE <<>>,
      fragment |-> fragment]

\* urllib.parse.urlsplit, third part: the fragment is what follows the
\* first "#"
SplitFragment(scheme, netloc, url) ==
  LET h == FindAny(url, {"#"}, 1)
  IN SplitQuery(scheme, netloc,
                IF h > 0 THEN SubSeq(url, 1, h - 1) ELSE url,
                IF h > 0 THEN From(url, h + 1) ELSE <<>>)

\* urllib.parse.urlsplit, second part: after "//" the netloc runs up to the
\* first of "/", "?" and "#"
SplitNetloc(scheme, url) ==
  LET hasNetloc == Len(url) >= 2 /\ url[1] = "/" /\ url[2] = "/"
      d == FindAny(url, {"/", "?", "#"}, 3)
      delim == IF d = 0 THEN Len(url) + 1 ELSE d
  IN SplitFragment(scheme,
                   IF hasNetloc THEN SubSeq(url, 3, delim - 1) ELSE <<>>,
                   IF hasNetloc THEN From(url, delim) ELSE url)

\* urllib.parse.urlsplit, first part: the scheme is what precedes the first
\* ":" when it is a letter followed by scheme characters
SplitScheme(url) ==
  LET i == FindAny(url, {":"}, 1)
      hasScheme == /\ i > 1
                   /\ IsAsciiAlpha(url[1])
                   /\ \A j \in 1..(i - 1) : IsSchemeChar(url[j])
  IN SplitNetloc(IF hasScheme THEN Lower(SubSeq(url, 1, i - 1)) ELSE <<>>,
                 IF hasScheme THEN From(url, i + 1) ELSE url)

\* urllib.parse.urlsplit(url): scheme, netloc, path, query, fragment (leading
\* blanks are stripped and tabs and newlines removed first)
urlsplit(url) ==
  SplitScheme(SelectSeq(LStripSet(url, {" ", "\t", "\n"}),
                        LAMBDA c : c \notin {"\t", "\n"}))

\* urllib.parse._splitparams on the result of urlsplit
SplitParams(r) ==
  LET slash == RFind(r.path, "/")
      i == FindAny(r.path, {";"}, IF slash > 0 THEN slash ELSE 1)
      split == r.scheme \in UsesParams /\ i > 0
  IN [scheme |-> r.scheme, netloc |-> r.netloc,
      path |-> IF split THEN SubSeq(r.path, 1, i - 1) ELSE r.path,
      params |-> IF split THEN From(r.path, i + 1) ELSE <<>>,
      query |-> r.query, fragment |-> r.fragment]

\* urllib.parse.urlparse(url): urlsplit, then the path's ;params split off
urlparse(url) == SplitParams(urlsplit(url))

\* urllib.parse.parse_qsl(qs, keep_blank_values=False): the (name, value)
\* pairs of the fields that have a non-empty value
RECURSIVE QueryPairs(_)
QueryPairs(fields) ==
  IF fields = <<>> THEN <<>>
  ELSE LET nv == fields[1]
           e == FindAny(nv, {"="}, 1)
       IN (IF e > 0 /\ e < Len(nv)
             THEN << <<unquote(PlusToSpace(SubSeq(nv, 1, e - 1))),
                       unquote(PlusToSpace(From(nv, e + 1)))>> >>
             ELSE <<>>)
          \o QueryPairs(Tail(fields))

parse_qsl(qs) == IF qs = <<>> THEN <<>> ELSE QueryPairs(SplitOn(qs, "&"))

\* (name, value) < (name, value): Python's tuple order
PairLess(p, q) == StrLess(p[1], q[1]) \/ (p[1] = q[1] /\ StrLess(p[2], q[2]))

\* sorted(query pairs), as a stable insertion sort
RECURSIVE InsertPair(_, _)
InsertPair(x, sorted) ==
  IF sorted = <<>> THEN <<x>>
  ELSE IF PairLess(x, sorted[1]) THEN <<x>> \o sorted
  ELSE <<sorted[1]>> \o InsertPair(x, Tail(sorted))

RECURSIVE SortPairs(_)
SortPairs(s) ==
  IF s = <<>> THEN <<>>
  ELSE InsertPair(s[Len(s)], SortPairs(SubSeq(s, 1, Len(s) - 1)))

\* urllib.parse.urlencode(pairs)
urlencode(pairs) ==
  Join([i \in 1..Len(pairs) |->
          quote_plus(pairs[i][1]) \o <<"=">> \o quote_plus(pairs[i][2])], <<"&">>)

\* urllib.parse.urlunparse((scheme, netloc, path, "", query, ""))
urlunparse(scheme, netloc, path, query) ==
  LET slashes == Len(path) >= 2 /\ path[1] = "/" /\ path[2] = "/"
      withNetloc == netloc # <<>> \/ (scheme # <<>> /\ scheme \in UsesNetloc /\ ~slashes)
      url1 == IF withNetloc
                THEN <<"/", "/">> \o netloc
                     \o (IF path # <<>> /\ path[1] # "/" THEN <<"/">> ELSE <<>>)
                     \o path
                ELSE path
      url2 == IF scheme # <<>> THEN scheme \o <<":">> \o url1 ELSE url1
  IN IF query # <<>> THEN url2 \o <<"?">> \o query ELSE url2

\* path.rstrip("/") or "/"
CanonicalPath(path) ==
  IF RStripSet(path, {"/"}) # <<>> THEN RStripSet(path, {"/"}) ELSE <<"/">>

\* canonicalize_url, after urlparse: default scheme, lower-cased netloc,
\* path without trailing slashes, sorted query, no params and no fragment
Canonical(parsed) ==
  urlunparse(IF parsed.scheme # <<>> THEN parsed.scheme ELSE Str_https,
             Lower(parsed.netloc),
             CanonicalPath(parsed.path),
             urlencode(SortPairs(parse_qsl(parsed.query))))

\* canonicalize_url(url)
canonicalize_url(url) == Canonical(urlparse(url))

(***************************************************************************)
(* LONG TEXTS                                                              *)
(*                                                                         *)
(* An article body, and whatever is hashed, is kept run-length encoded: a  *)
(* sequence of runs [c, n] standing for the character c repeated n times,  *)
(* with no empty run and no two neighbouring runs of the same character,   *)
(* so that equal texts have equal encodings.                               *)
(***************************************************************************)
Run(c, n) == [c |-> c, n |-> n]

\* the encoding brought to its normal form
RECURSIVE PNorm(_)
PNorm(p) ==
  IF p = <<>> THEN <<>>
  ELSE IF p[1].n = 0 THEN PNorm(Tail(p))
  ELSE LET rest == PNorm(Tail(p))
       IN IF rest # <<>> /\ rest[1].c = p[1].c
            THEN <<Run(p[1].c, p[1].n + rest[1].n)>> \o Tail(rest)
            ELSE <<p[1]>> \o rest

\* the encoding of a str
Pack(s) == PNorm([i \in 1..Len(s) |-> Run(s[i], 1)])

\* len(text)
RECURSIVE PLen(_)
PLen(p) == IF p = <<>> THEN 0 ELSE p[1].n + PLen(Tail(p))

\* text[:k]
RECURSIVE PPrefix(_, _)
PPrefix(p, k) ==
  IF p = <<>> \/ k <= 0 THEN <<>>
  ELSE IF p[1].n >= k THEN <<Run(p[1].c, k)>>
  ELSE <<p[1]>> \o PPrefix(Tail(p), k - p[1].n)

\* text.strip()
RECURSIVE PLStrip(_)
PLStrip(p) ==
  IF p # <<>> /\ p[1].c \in Whitespace THEN PLStrip(Tail(p)) ELSE p

RECURSIVE PRStrip(_)
PRStrip(p) ==
  IF p # <<>> /\ p[Len(p)].c \in Whitespace
    THEN PRStrip(SubSeq(p, 1, Len(p) - 1))
    ELSE p

PStrip(p) == PRStrip(PLStrip(p))

\* "|".join(texts)
RECURSIVE PJoin(_)
PJoin(parts) ==
  IF parts = <<>> THEN <<>>
  ELSE IF Len(parts) = 1 THEN parts[1]
  ELSE PNorm(parts[1] \o <<Run("|", 1)>> \o PJoin(Tail(parts)))

\* deterministic_hash(*parts): the parts that are not empty, each stripped,
\* joined with "|".  SHA-256 is taken to be injective, so the digest is
\* represented by the text it is computed from.
deterministic_hash(parts) ==
  PJoin([i \in 1..Len(SelectSeq(parts, LAMBDA x : x # <<>>)) |->
           PStrip(SelectSeq(parts, LAMBDA x : x # <<>>)[i])])

(***************************************************************************)
(* RATE LIMITER  (src/src/rate_limit.py)                                   *)
(*                                                                         *)
(* Time is counted in whole seconds.  Token amounts are floats in the      *)
(* source; with qps = QpsNum/QpsDen every amount the code can compute from *)
(* whole-second readings is a multiple of 1/QpsDen, so tokens are stored   *)
(* as an integer number of 1/QpsDen tokens (exact, no rounding).           *)
(***************************************************************************)
QpsNum == 1

QpsDen == 2

Burst == 1

MaxClock == 3

MaxCalls == 3

Threads == {"w1", "w2"}

Keys == {"a.com", "b.org"}

NoThread == "none"

NoBucket == [capacity |-> 0, tokens |-> 0, refill_rate |-> 0, updated_at |-> -1]

NoTime == -1

\* Python's None, where a value may be absent
None == [None |-> TRUE]

\* amount passed by allow(): bucket.consume(1.0), in 1/QpsDen tokens
Amount == 1 * QpsDen

VARIABLES
  clock,      \* what time.time() returns now
  buckets,    \* RateLimiter._buckets: key -> TokenBucket (NoBucket: absent)
  lock,       \* RateLimiter._lock: the thread holding it, or NoThread
  pc,         \* per thread: position inside allow()
  arg,        \* per thread: the key of the running allow()
  found,      \* per thread: whether self._buckets.get(key) returned a bucket
  ret,        \* per thread: return value of the last finished allow()
  calls,      \* number of allow() calls started so far
  created,    \* history: TokenBucket constructions per key
  granted,    \* history: allow() calls per key that returned True
  finished,   \* history: allow() calls per key that returned
  keyHist,    \* history: per key, the `now` of the granted consumes
              \*          and the outcome of the latest consume
  last,       \* history: the latest finished consume
  snap,       \* history: per thread, the bucket map when it took the lock
  readAt,     \* history: per thread, the clock readings of its running call
  clockMoved  \* history: whether the clock changed since the start

VARIABLES
  url_hashes,      \* DedupeIndex.url_hashes: dict, key -> key
  content_hashes,  \* DedupeIndex.content_hashes: dict, key -> key
  accepted,        \* history: the add() calls that were accepted
  lastAdd          \* history: the latest add() call and what it returned

VARIABLES
  items,                 \* cluster_news: the items passed in
  window_minutes,        \* cluster_news: the window passed in
  similarity_threshold,  \* cluster_news: the threshold passed in, a fraction
  sorted_items,          \* cluster_news: sorted(items, key=published_at)
  clusters,              \* cluster_news: the list of ClusterCandidate
  cursor,                \* cluster_news: how many sorted items are placed
  cpc,                   \* cluster_news: "idle", "sort", "loop", "return", "done"
  placed,                \* history: per placed item, the clusters it met
  returned               \* cluster_news: the list of NewsCluster returned

VARIABLES
  feed,          \* fetch_news: the links of the entries the feed will deliver
  todo,          \* fetch_news: the links of the entries still to be handled
  fpc,           \* fetch_news: position in the run
  attempt,       \* _request: attempts made by the running call
  ROBOTS_CACHE,  \* news_fetch.ROBOTS_CACHE: the bases with a cached parser
  permit,        \* history: domain of a granted allow_request() not yet used
  sent,          \* history: the HTTP request attempts sent so far
  collected      \* fetch_news: number of items built so far

VARIABLES
  store          \* the storage backend: key -> stored record

VARIABLES
  request,       \* analyze: the AnalyzeNewsRequest built from the payload
  apc,           \* analyze: position in the call
  response,      \* analyze: the clusters cluster_news returned
  stored,        \* analyze: how many clusters were written to storage
  status         \* analyze: the HTTP status the handler answers with

VARIABLES
  now_utc,       \* cleanup: now = datetime.now(timezone.utc), in seconds
  dry_run,       \* cleanup: request.dry_run
  spc,           \* cleanup: position in the sweep
  prefix_i,      \* cleanup: position in PREFIXES
  keys,          \* cleanup: the keys of the running prefix not yet handled
  deleted,       \* cleanup: the list of deleted keys
  kept,          \* cleanup: the count of kept records
  store0,        \* history: the storage when the sweep started
  visited,       \* history: the keys the sweep has read
  prior          \* history: what the sweep before this one returned

VARIABLES
  since,            \* fetch_news: request.since, a datetime or None
  ipc,              \* fetch_news: position in the run
  run,              \* history: the number of fetch_news calls so far
  source_i,         \* fetch_news: position in request.sources
  entries_left,     \* fetch_news: entries of the source not yet handled
  handled,          \* history: the number of entries handled so far
  collected_items,  \* fetch_news: collected, the items accepted so far
  run_urls,         \* history: canonical URLs dedupe.add accepted in this run
  run_pairs,        \* history: (content, title) dedupe.add accepted in this run
  earlier_urls,     \* history: canonical URLs accepted in earlier runs
  last_entry        \* history: the entry handled last and what became of it

VARIABLES
  recalled,      \* history: cluster_news was called before with this input
  earlier        \* history: what that earlier call returned

VARIABLES
  mpc,           \* process_request: position in the call
  pairs_left     \* process_request: (exchange, symbol) pairs not yet fetched

VARIABLES
  raw_url,       \* canonicalize_url: the URL given to the first call
  upc,           \* how many times canonicalize_url was applied
  canon_once,    \* canonicalize_url(raw_url)
  canon_twice    \* canonicalize_url(canon_once)

VARIABLES
  raw_title,     \* normalize_title: the title given to the first call
  tpc,           \* how many times normalize_title was applied
  title_once,    \* normalize_title(raw_title)
  title_twice    \* normalize_title(title_once)

VARIABLES
  candidate,     \* to_schema: the ClusterCandidate it is called on
  eval_now,      \* to_schema: datetime.now(timezone.utc) in freshness_score
  kpc,           \* to_schema: "idle", "built", "done"
  schema         \* to_schema: the NewsCluster it returned

VARIABLES
  held,          \* cleanup on a large store: per prefix, how many expired
                 \* and how many other records are stored
  lpc,           \* cleanup on a large store: "idle", "scan", "done"
  lprefix,       \* cleanup on a large store: the prefix scanned next
  listed         \* history: how many expired and how many other keys the
                 \* last listing held

limiterVars == <<clock, buckets, lock, pc, arg, found, ret, calls, created,
                 granted, finished, keyHist, last, snap, readAt, clockMoved>>

dedupeVars == <<url_hashes, content_hashes, accepted, lastAdd>>

clusterVars == <<items, window_minutes, similarity_threshold, sorted_items,
                 clusters, cursor, cpc, placed, returned>>

fetchVars == <<feed, todo, fpc, attempt, ROBOTS_CACHE, permit, sent, collected>>

storageVars == <<store>>

analyzeVars == <<request, apc, response, stored, status>>

sweepVars == <<now_utc, dry_run, spc, prefix_i, keys, deleted, kept, store0, visited,
               prior>>

ingestVars == <<since, ipc, run, source_i, entries_left, handled,
                collected_items, run_urls, run_pairs, earlier_urls, last_entry>>

recallVars == <<recalled, earlier>>

marketVars == <<mpc, pairs_left>>

canonVars == <<raw_url, upc, canon_once, canon_twice>>

titleVars == <<raw_title, tpc, title_once, title_twice>>

schemaVars == <<candidate, eval_now, kpc, schema>>

largeVars == <<held, lpc, lprefix, listed>>

laterVars == <<titleVars, schemaVars, largeVars>>

serviceVars == <<storageVars, analyzeVars, sweepVars, ingestVars, recallVars,
                 marketVars, canonVars, laterVars>>

nonAnalyzeVars == <<limiterVars, dedupeVars, clusterVars, fetchVars, sweepVars,
                    ingestVars, recallVars, marketVars, canonVars,
                    laterVars>>

nonSweepVars == <<limiterVars, dedupeVars, clusterVars, fetchVars, analyzeVars,
                  ingestVars, recallVars, marketVars, canonVars,
                    laterVars>>

nonIngestVars == <<limiterVars, clusterVars, fetchVars, analyzeVars, sweepVars,
                   recallVars, marketVars, canonVars, laterVars>>

nonMarketVars == <<limiterVars, dedupeVars, clusterVars, fetchVars, analyzeVars,
                   sweepVars, ingestVars, recallVars, canonVars, laterVars>>

nonLimiterVars == <<dedupeVars, clusterVars, fetchVars, serviceVars>>

nonDedupeVars == <<limiterVars, clusterVars, fetchVars, serviceVars>>

nonClusterVars == <<limiterVars, dedupeVars, fetchVars, serviceVars>>

EmptyDict == <<>>

NoAdd == [url |-> <<>>, content |-> <<>>, title |-> <<>>, accepted |-> FALSE,
          key |-> <<>>, called |-> FALSE]

\* DedupeIndex(): both dicts empty
DedupeStart ==
  /\ url_hashes = EmptyDict
  /\ content_hashes = EmptyDict
  /\ accepted = {}
  /\ lastAdd = NoAdd

NoDomain == "none"

\* no cluster_news call is running
ClusterStart ==
  /\ items = <<>>
  /\ window_minutes = 0
  /\ similarity_threshold = [num |-> 0, den |-> 1]
  /\ sorted_items = <<>>
  /\ clusters = <<>>
  /\ cursor = 0
  /\ cpc = "idle"
  /\ placed = <<>>
  /\ returned = <<>>

\* no fetch_news call is running; ROBOTS_CACHE = {} at import
FetchStart ==
  /\ feed = <<>>
  /\ todo = <<>>
  /\ fpc = "idle"
  /\ attempt = 0
  /\ ROBOTS_CACHE = {}
  /\ permit = NoDomain
  /\ sent = {}
  /\ collected = 0

EmptyStorage == <<>>

NoRequest == [items |-> <<>>, confirm_window_minutes |-> 0,
              similarity_threshold |-> [num |-> 0, den |-> 1]]

\* nothing is stored
StorageStart == store = EmptyStorage

\* no analyze call is running
AnalyzeStart ==
  /\ request = NoRequest
  /\ apc = "idle"
  /\ response = <<>>
  /\ stored = 0
  /\ status = 0

NoResult == [deleted |-> <<>>, kept |-> -1]

\* no cleanup call is running
SweepStart ==
  /\ now_utc = 0
  /\ dry_run = FALSE
  /\ spc = "idle"
  /\ prefix_i = 0
  /\ keys = <<>>
  /\ deleted = <<>>
  /\ kept = 0
  /\ store0 = EmptyStorage
  /\ visited = <<>>
  /\ prior = NoResult

\* outcome: what became of the entry; published_at: the date an entry was
\* dropped for; url: the URL of a kept item; seen: whether a rejected item
\* repeats a URL or a (content, title) pair accepted earlier in the run;
\* same_source: whether an item dropped as a near duplicate is near to an
\* item collected from its own source
NoEntry == [outcome |-> "none", published_at |-> -1, url |-> <<>>,
            seen |-> FALSE, same_source |-> FALSE]

\* no fetch_news call is running
IngestStart ==
  /\ since = None
  /\ ipc = "idle"
  /\ run = 0
  /\ source_i = 0
  /\ entries_left = 0
  /\ handled = 0
  /\ collected_items = <<>>
  /\ run_urls = {}
  /\ run_pairs = {}
  /\ earlier_urls = {}
  /\ last_entry = NoEntry

\* cluster_news was not called before
RecallStart == recalled = FALSE /\ earlier = <<>>

\* no process_request call is running
MarketStart == mpc = "idle" /\ pairs_left = <<>>

\* no canonicalize_url call is looked at
CanonStart ==
  /\ raw_url = <<>>
  /\ upc = 0
  /\ canon_once = <<>>
  /\ canon_twice = <<>>

\* no normalize_title call is looked at
TitleStart ==
  /\ raw_title = <<>>
  /\ tpc = 0
  /\ title_once = <<>>
  /\ title_twice = <<>>

\* no to_schema call is looked at
SchemaStart ==
  /\ candidate = <<>>
  /\ eval_now = 0
  /\ kpc = "idle"
  /\ schema = <<>>

\* no cleanup of a large store is looked at
LargeStart ==
  /\ held = <<>>
  /\ lpc = "idle"
  /\ lprefix = 0
  /\ listed = <<>>

LaterStart == TitleStart /\ SchemaStart /\ LargeStart

ServiceStart ==
  /\ StorageStart /\ AnalyzeStart /\ SweepStart
  /\ IngestStart /\ RecallStart /\ MarketStart /\ CanonStart
  /\ LaterStart

vars == <<limiterVars, dedupeVars, clusterVars, fetchVars, serviceVars>>

\* TokenBucket(capacity=self.burst, tokens=self.burst, refill_rate=self.qps,
\*             updated_at=time.time())
TokenBucket(now) ==
  [capacity |-> Burst * QpsDen, tokens |-> Burst * QpsDen,
   refill_rate |-> QpsNum, updated_at |-> now]

\* a refill that does not stamp the bucket
RefillWithoutStamp(b, now) ==
  [b EXCEPT !.tokens = Min(b.capacity, b.tokens + (now - b.updated_at) * b.refill_rate)]

\* consume, lines 18-21: refill from the elapsed time and stamp the bucket
Refill(b, now) ==
  [b EXCEPT !.tokens = Min(b.capacity, b.tokens + (now - b.updated_at) * b.refill_rate),
            !.updated_at = now]

\* consume, lines 22-25: take `amount` tokens when there are enough
Take(b, amount) ==
  IF b.tokens >= amount
    THEN [bucket |-> [b EXCEPT !.tokens = b.tokens - amount], ok |-> TRUE]
    ELSE [bucket |-> b, ok |-> FALSE]

\* TokenBucket.consume(amount) as one step, reading the clock as `now`
consume(b, amount, now) == Take(Refill(b, now), amount)

\* RateLimiter.allow(key) run without interruption: t0 is the clock reading
\* used if the bucket is created, now the reading made by consume()
allow(bkts, key, t0, now) ==
  LET b == IF bkts[key] = NoBucket THEN TokenBucket(t0) ELSE bkts[key]
      r == consume(b, Amount, now)
  IN [buckets |-> [bkts EXCEPT ![key] = r.bucket], ok |-> r.ok]

NoCall == [key |-> "", now |-> NoTime, elapsed |-> 0, ok |-> FALSE,
           first |-> FALSE, prevOk |-> FALSE, prevGrant |-> NoTime]

NoReads == [t0 |-> NoTime, now |-> NoTime, elapsed |-> 0]

NoHist == [grantAt |-> NoTime, ok |-> FALSE, grants |-> <<>>]

LimiterStart ==
  /\ clock \in 0..MaxClock
  /\ buckets = [k \in Keys |-> NoBucket]
  /\ lock = NoThread
  /\ pc = [t \in Threads |-> "idle"]
  /\ arg = [t \in Threads |-> ""]
  /\ found = [t \in Threads |-> FALSE]
  /\ ret = [t \in Threads |-> FALSE]
  /\ calls = 0
  /\ created = [k \in Keys |-> 0]
  /\ granted = [k \in Keys |-> 0]
  /\ finished = [k \in Keys |-> 0]
  /\ keyHist = [k \in Keys |-> NoHist]
  /\ last = NoCall
  /\ snap = [t \in Threads |-> [k \in Keys |-> NoBucket]]
  /\ readAt = [t \in Threads |-> NoReads]
  /\ clockMoved = FALSE

LimiterInit ==
  LimiterStart /\ DedupeStart /\ ClusterStart /\ FetchStart /\ ServiceStart

\* the wall clock moves forward
ClockAdvance ==
  /\ \E d \in 1..MaxClock : clock + d <= MaxClock /\ clock' = clock + d
  /\ clockMoved' = TRUE
  /\ UNCHANGED nonLimiterVars
  /\ UNCHANGED <<buckets, lock, pc, arg, found, ret, calls, created, granted,
                 finished, keyHist, last, snap, readAt>>

\* the wall clock is set back (time.time() is not monotonic)
ClockSetBack ==
  /\ \E d \in 1..MaxClock : clock - d >= 0 /\ clock' = clock - d
  /\ clockMoved' = TRUE
  /\ UNCHANGED nonLimiterVars
  /\ UNCHANGED <<buckets, lock, pc, arg, found, ret, calls, created, granted,
                 finished, keyHist, last, snap, readAt>>

\* a fetch worker calls allow(key)
Call(t) ==
  /\ pc[t] = "idle"
  /\ calls < MaxCalls
  /\ \E k \in Keys : arg' = [arg EXCEPT ![t] = k]
  /\ calls' = calls + 1
  /\ pc' = [pc EXCEPT ![t] = "acquire"]
  /\ UNCHANGED nonLimiterVars
  /\ UNCHANGED <<clock, buckets, lock, found, ret, created, granted, finished,
                 keyHist, last, snap, readAt, clockMoved>>

\* a limiter whose `with self._lock:` never waits (no mutual exclusion)
LockFreeBroken == TRUE

\* `with self._lock:` can be entered only while nobody holds the lock
LockFree == lock = NoThread

Acquire(t) ==
  /\ pc[t] = "acquire"
  /\ LockFree
  /\ lock' = t
  /\ snap' = [snap EXCEPT ![t] = buckets]
  /\ readAt' = [readAt EXCEPT ![t] = NoReads]
  /\ pc' = [pc EXCEPT ![t] = "get"]
  /\ UNCHANGED nonLimiterVars
  /\ UNCHANGED <<clock, buckets, arg, found, ret, calls, created, granted,
                 finished, keyHist, last, clockMoved>>

\* bucket = self._buckets.get(key)
Get(t) ==
  /\ pc[t] = "get"
  /\ found' = [found EXCEPT ![t] = buckets[arg[t]] # NoBucket]
  /\ pc' = [pc EXCEPT ![t] = IF buckets[arg[t]] # NoBucket THEN "refill" ELSE "create"]
  /\ UNCHANGED nonLimiterVars
  /\ UNCHANGED <<clock, buckets, lock, arg, ret, calls, created, granted,
                 finished, keyHist, last, snap, readAt, clockMoved>>

\* if not bucket: bucket = TokenBucket(...); self._buckets[key] = bucket
Create(t) ==
  /\ pc[t] = "create"
  /\ buckets' = [buckets EXCEPT ![arg[t]] = TokenBucket(clock)]
  /\ created' = [created EXCEPT ![arg[t]] = @ + 1]
  /\ readAt' = [readAt EXCEPT ![t].t0 = clock]
  /\ pc' = [pc EXCEPT ![t] = "refill"]
  /\ UNCHANGED nonLimiterVars
  /\ UNCHANGED <<clock, lock, arg, found, ret, calls, granted, finished,
                 keyHist, last, snap, clockMoved>>

\* a consume that refills and stamps every bucket the limiter holds
ConsumeRefillAll(t) ==
  /\ pc[t] = "refill"
  /\ buckets' = [k \in Keys |->
                   IF buckets[k] = NoBucket THEN NoBucket
                   ELSE Refill(buckets[k], clock)]
  /\ readAt' = [readAt EXCEPT ![t].now = clock,
                              ![t].elapsed = clock - buckets[arg[t]].updated_at]
  /\ pc' = [pc EXCEPT ![t] = "take"]
  /\ UNCHANGED nonLimiterVars
  /\ UNCHANGED <<clock, lock, arg, found, ret, calls, created, granted,
                 finished, keyHist, last, snap, clockMoved>>

\* consume(), lines 18-21
ConsumeRefill(t) ==
  /\ pc[t] = "refill"
  /\ buckets' = [buckets EXCEPT ![arg[t]] = Refill(@, clock)]
  /\ readAt' = [readAt EXCEPT ![t].now = clock,
                              ![t].elapsed = clock - buckets[arg[t]].updated_at]
  /\ pc' = [pc EXCEPT ![t] = "take"]
  /\ UNCHANGED nonLimiterVars
  /\ UNCHANGED <<clock, lock, arg, found, ret, calls, created, granted,
                 finished, keyHist, last, snap, clockMoved>>

\* consume(), lines 22-25
ConsumeTake(t) ==
  LET k == arg[t]
      r == Take(buckets[k], Amount)
  IN /\ pc[t] = "take"
     /\ buckets' = [buckets EXCEPT ![k] = r.bucket]
     /\ ret' = [ret EXCEPT ![t] = r.ok]
     /\ granted' = [granted EXCEPT ![k] = IF r.ok THEN @ + 1 ELSE @]
     /\ last' = [key |-> k, now |-> readAt[t].now, elapsed |-> readAt[t].elapsed,
                 ok |-> r.ok, first |-> ~found[t], prevOk |-> keyHist[k].ok,
                 prevGrant |-> keyHist[k].grantAt]
     /\ keyHist' = [keyHist EXCEPT ![k] =
                      [grantAt |-> IF r.ok THEN readAt[t].now ELSE @.grantAt,
                       ok |-> r.ok,
                       grants |-> IF r.ok THEN Append(@.grants, readAt[t].now)
                                  ELSE @.grants]]
     /\ pc' = [pc EXCEPT ![t] = "release"]
     /\ UNCHANGED nonLimiterVars
     /\ UNCHANGED <<clock, lock, arg, found, calls, created, finished, snap,
                    readAt, clockMoved>>

\* an allow() that returns with the lock still held
ReleaseKeepingLock(t) ==
  /\ pc[t] = "release"
  /\ finished' = [finished EXCEPT ![arg[t]] = @ + 1]
  /\ pc' = [pc EXCEPT ![t] = "idle"]
  /\ arg' = [arg EXCEPT ![t] = ""]
  /\ found' = [found EXCEPT ![t] = FALSE]
  /\ snap' = [snap EXCEPT ![t] = [k \in Keys |-> NoBucket]]
  /\ readAt' = [readAt EXCEPT ![t] = NoReads]
  /\ UNCHANGED nonLimiterVars
  /\ UNCHANGED <<clock, buckets, lock, ret, calls, created, granted, keyHist,
                 last, clockMoved>>

\* leaving the `with` block releases the lock; allow() returns
Release(t) ==
  /\ pc[t] = "release"
  /\ lock' = NoThread
  /\ finished' = [finished EXCEPT ![arg[t]] = @ + 1]
  /\ pc' = [pc EXCEPT ![t] = "idle"]
  /\ arg' = [arg EXCEPT ![t] = ""]
  /\ found' = [found EXCEPT ![t] = FALSE]
  /\ snap' = [snap EXCEPT ![t] = [k \in Keys |-> NoBucket]]
  /\ readAt' = [readAt EXCEPT ![t] = NoReads]
  /\ UNCHANGED nonLimiterVars
  /\ UNCHANGED <<clock, buckets, ret, calls, created, granted, keyHist,
                 last, clockMoved>>

LimiterNext ==
  \/ ClockAdvance
  \/ ClockSetBack
  \/ \E t \in Threads : Call(t)
  \/ \E t \in Threads : Acquire(t)
  \/ \E t \in Threads : Get(t)
  \/ \E t \in Threads : Create(t)
  \/ \E t \in Threads : ConsumeRefill(t)
  \/ \E t \in Threads : ConsumeTake(t)
  \/ \E t \in Threads : Release(t)

SpecLimiter == LimiterInit /\ [][LimiterNext]_vars

\* the limiter on a clock that never goes back
LimiterNextMonotonic ==
  \/ ClockAdvance
  \/ \E t \in Threads : Call(t)
  \/ \E t \in Threads : Acquire(t)
  \/ \E t \in Threads : Get(t)
  \/ \E t \in Threads : Create(t)
  \/ \E t \in Threads : ConsumeRefill(t)
  \/ \E t \in Threads : ConsumeTake(t)
  \/ \E t \in Threads : Release(t)

SpecLimiterMonotonic == LimiterInit /\ [][LimiterNextMonotonic]_vars

(***************************************************************************)
(* Rate limiter claims                                                     *)
(***************************************************************************)

\* C1: every bucket the limiter holds has 0 <= tokens <= capacity in every
\* reachable state, whatever allow() calls were made and whatever the wall
\* clock returned.
C1_TokensWithinCapacity ==
  \A k \in Keys :
    buckets[k] # NoBucket =>
      /\ 0 <= buckets[k].tokens
      /\ buckets[k].tokens <= buckets[k].capacity

\* C2: with capacity 1 and refill 0.5/s, for every finished allow(key):
\* the first call for the key returns true; a call with zero elapsed time
\* after an allowed call returns false; a call at least 2 seconds (one token's
\* refill time) after the latest allowed call returns true, whatever denied
\* calls came in between.
C2_FirstDeniedThenAllowed ==
  last # NoCall =>
    /\ last.first => last.ok
    /\ (~last.first /\ last.prevOk /\ last.elapsed = 0) => ~last.ok
    /\ (last.prevGrant # NoTime /\ (last.now - last.prevGrant) * QpsNum >= Amount)
         => last.ok

\* the parts of C2 that do not concern the first call of a key
C2_AfterFirstCall ==
  (last # NoCall /\ ~last.first) =>
    /\ (last.prevOk /\ last.elapsed = 0) => ~last.ok
    /\ (last.prevGrant # NoTime /\ (last.now - last.prevGrant) * QpsNum >= Amount)
         => last.ok

InAllow(t) == pc[t] \in {"get", "create", "refill", "take", "release"}

\* C3: allow() is atomic under concurrent callers: no two threads are inside
\* the locked block together; at most one bucket is created per key; the
\* bucket map and the result a call leaves are those of an uninterrupted
\* allow() run on the map the call found when it took the lock; and as long
\* as no time has elapsed, exactly one of the calls finished for a key got
\* true.
C3_AllowAtomic ==
  /\ \A t1, t2 \in Threads : (t1 # t2) => ~(InAllow(t1) /\ InAllow(t2))
  /\ \A k \in Keys : created[k] <= 1
  /\ \A t \in Threads :
       pc[t] = "release" =>
         LET r == allow(snap[t], arg[t], readAt[t].t0, readAt[t].now)
         IN buckets = r.buckets /\ ret[t] = r.ok
  /\ ~clockMoved =>
       \A k \in Keys : /\ granted[k] <= Burst
                       /\ finished[k] >= 1 => granted[k] = Burst

\* two workers called allow() for the same fresh key with no time elapsed:
\* one got true, the other false
C3_Witness ==
  /\ ~clockMoved
  /\ \E k \in Keys : finished[k] = 2 /\ granted[k] = 1 /\ created[k] = 1
  /\ calls = 2
  /\ ret["w1"] # ret["w2"]


(***************************************************************************)
(* DEDUPE INDEX  (src/src/dedupe.py)                                       *)
(***************************************************************************)
ContentLimit == 5000

\* dict[key] = value
DictPutReplacing(dict, key, value) == key :> value

DictPut(dict, key, value) ==
  [k \in (DOMAIN dict) \cup {key} |-> IF k = key THEN value ELSE dict[k]]

\* a url_key computed from the URL as given, not from its canonical form
UrlKeyRaw(url) == deterministic_hash(<<Pack(url)>>)

\* add, lines 18 and 20: url_key = deterministic_hash(canonicalize_url(url))
UrlKey(url) == deterministic_hash(<<Pack(canonicalize_url(url))>>)

\* a content_key computed from the whole content
ContentKeyWhole(content, title) ==
  deterministic_hash(<<content, Pack(normalize_title(title))>>)

\* add, lines 19 and 21:
\* content_key = deterministic_hash(content[:5000], normalize_title(title))
ContentKey(content, title) ==
  deterministic_hash(<<PPrefix(content, ContentLimit), Pack(normalize_title(title))>>)

\* the inputs of the model
Url_a_slash == <<"h", "t", "t", "p", ":", "/", "/", "E", ".", "x", "/", "a", "/">>

Url_a_frag == <<"h", "t", "t", "p", ":", "/", "/", "e", ".", "x", "/", "a", "#", "f">>

Url_A == <<"h", "t", "t", "p", ":", "/", "/", "e", ".", "x", "/", "A">>

Url_a_query == <<"h", "t", "t", "p", ":", "/", "/", "e", ".", "x", "/", "a", "?", "q", "=", "1">>

DedupeUrls == {Url_a_slash, Url_a_frag, Url_A, Url_a_query}

DedupeContents ==
  { <<Run("x", ContentLimit), Run("y", 1)>>,
    <<Run("x", ContentLimit), Run("z", 1)>>,
    <<Run("x", ContentLimit - 1), Run("y", 1)>> }

Title_Ab == <<"A", " ", "b">>

Title_Ab_markup == <<"<", "i", ">", "A", "<", "/", "i", ">", " ", " ", "b">>

Title_B == <<"B">>

DedupeTitles == {Title_Ab, Title_Ab_markup, Title_B}

\* the keys of the model's inputs, computed once
ModelContents == DedupeContents \cup {PPrefix(c, ContentLimit) : c \in DedupeContents}

CanonOf == [u \in DedupeUrls |-> canonicalize_url(u)]

TitleKeyOf == [t \in DedupeTitles |-> normalize_title(t)]

UrlKeyOf == [u \in DedupeUrls |-> UrlKey(u)]

ContentKeyOf == [c \in ModelContents, t \in DedupeTitles |-> ContentKey(c, t)]

\* an add that records the URL hash before it looks the content hash up
DedupeAddUrlFirst(uh, ch, url, content, title) ==
  LET url_key == UrlKeyOf[url]
      content_key == ContentKeyOf[content, title]
  IN IF url_key \in DOMAIN uh
       THEN [url_hashes |-> uh, content_hashes |-> ch, accepted |-> FALSE,
             key |-> uh[url_key]]
     ELSE IF content_key \in DOMAIN ch
       THEN [url_hashes |-> DictPut(uh, url_key, url_key),
             content_hashes |-> ch, accepted |-> FALSE,
             key |-> ch[content_key]]
     ELSE [url_hashes |-> DictPut(uh, url_key, url_key),
           content_hashes |-> DictPut(ch, content_key, content_key),
           accepted |-> TRUE, key |-> url_key]

\* DedupeIndex.add(url, content, title) on the dicts uh and ch: the dicts it
\* leaves and the pair (accepted, key) it returns
DedupeAdd(uh, ch, url, content, title) ==
  LET url_key == UrlKeyOf[url]
      content_key == ContentKeyOf[content, title]
  IN IF url_key \in DOMAIN uh
       THEN [url_hashes |-> uh, content_hashes |-> ch, accepted |-> FALSE,
             key |-> uh[url_key]]
     ELSE IF content_key \in DOMAIN ch
       THEN [url_hashes |-> uh, content_hashes |-> ch, accepted |-> FALSE,
             key |-> ch[content_key]]
     ELSE [url_hashes |-> DictPut(uh, url_key, url_key),
           content_hashes |-> DictPut(ch, content_key, content_key),
           accepted |-> TRUE, key |-> url_key]

\* one add() call on the index
Add(url, content, title) ==
  LET r == DedupeAdd(url_hashes, content_hashes, url, content, title)
  IN /\ url_hashes' = r.url_hashes
     /\ content_hashes' = r.content_hashes
     /\ lastAdd' = [url |-> url, content |-> content, title |-> title,
                    accepted |-> r.accepted, key |-> r.key, called |-> TRUE]
     /\ accepted' = IF r.accepted
                      THEN accepted \cup {[url |-> url, content |-> content,
                                           title |-> title, key |-> r.key]}
                      ELSE accepted
     /\ UNCHANGED nonDedupeVars

DedupeInit ==
  /\ DedupeStart /\ LimiterStart /\ clock = 0 /\ ClusterStart /\ FetchStart
  /\ ServiceStart

DedupeNext ==
  \E url \in DedupeUrls, content \in DedupeContents, title \in DedupeTitles :
    Add(url, content, title)

SpecDedupe == DedupeInit /\ [][DedupeNext]_vars

(***************************************************************************)
(* Dedupe claims                                                           *)
(***************************************************************************)

\* the add() calls accepted before the latest call
AcceptedBefore ==
  IF lastAdd.accepted
    THEN accepted \ {[url |-> lastAdd.url, content |-> lastAdd.content,
                      title |-> lastAdd.title, key |-> lastAdd.key]}
    ELSE accepted

\* C5: once add() has accepted an item with URL u, a later add() whose URL has
\* the same canonical form is rejected, whatever its content and title, and
\* returns the key the accepting call returned.
C5_SameUrlRejected ==
  \A a \in AcceptedBefore :
    (lastAdd.called /\ CanonOf[lastAdd.url] = CanonOf[a.url])
      => (~lastAdd.accepted /\ lastAdd.key = a.key)

\* a URL written differently from an accepted one, with another content and
\* title, was rejected for its canonical URL
C5_Witness ==
  \E a \in AcceptedBefore :
    /\ lastAdd.called
    /\ lastAdd.url # a.url
    /\ CanonOf[lastAdd.url] = CanonOf[a.url]
    /\ ContentKeyOf[lastAdd.content, lastAdd.title] # ContentKeyOf[a.content, a.title]
    /\ ~lastAdd.accepted

\* C6: once add(u1, c1, t1) has been accepted, a later add(u2, c2, t2) with
\* c2[:5000] = c1[:5000] and the same normalized title is rejected for every
\* URL u2; and what add() returns and leaves never depends on the content
\* beyond its first 5000 characters.
C6_SameContentRejected ==
  /\ \A a \in AcceptedBefore :
       ( /\ lastAdd.called
         /\ PPrefix(lastAdd.content, ContentLimit) = PPrefix(a.content, ContentLimit)
         /\ TitleKeyOf[lastAdd.title] = TitleKeyOf[a.title] )
         => ~lastAdd.accepted
  /\ \A url \in DedupeUrls, content \in DedupeContents, title \in DedupeTitles :
       DedupeAdd(url_hashes, content_hashes, url, content, title)
         = DedupeAdd(url_hashes, content_hashes, url,
                     PPrefix(content, ContentLimit), title)

\* a URL never seen before was rejected because its content, different from
\* an accepted one only after the 5000th character, and its title, different
\* only in markup, were seen
C6_Witness ==
  \E a \in AcceptedBefore :
    /\ lastAdd.called
    /\ CanonOf[lastAdd.url] # CanonOf[a.url]
    /\ lastAdd.content # a.content
    /\ lastAdd.title # a.title
    /\ PPrefix(lastAdd.content, ContentLimit) = PPrefix(a.content, ContentLimit)
    /\ TitleKeyOf[lastAdd.title] = TitleKeyOf[a.title]
    /\ PLen(lastAdd.content) > ContentLimit
    /\ ~lastAdd.accepted

\* C7: the URL hashes and the content hashes of an index only grow: a hash
\* present before an add() call is present after it.
C7_HashesOnlyGrow ==
  [][ /\ (DOMAIN url_hashes) \subseteq (DOMAIN url_hashes')
      /\ (DOMAIN content_hashes) \subseteq (DOMAIN content_hashes') ]_vars

\* the index holds two URL hashes and two content hashes: the first pair
\* survived the add() that inserted the second
C7_Witness ==
  /\ Cardinality(DOMAIN url_hashes) >= 2
  /\ Cardinality(DOMAIN content_hashes) >= 2

(***************************************************************************)
(* CLUSTERING  (src/src/confirm.py; rapidfuzz.fuzz.token_set_ratio)        *)
(***************************************************************************)
RECURSIVE GCD(_, _)
GCD(a, b) == IF b = 0 THEN a ELSE GCD(b, a % b)

\* a float that is the quotient n/d of two naturals, kept exact, d > 0
Frac(n, d) == LET g == GCD(n, d) IN [num |-> n \div g, den |-> d \div g]

FracLess(x, y) == x.num * y.den < y.num * x.den

FracMax(x, y) == IF FracLess(x, y) THEN y ELSE x

\* str.split(): the words between runs of whitespace
RECURSIVE Split(_)
Split(s) ==
  LET t == LStripSet(s, Whitespace)
      i == FindAny(t, Whitespace, 1)
  IN IF t = <<>> THEN <<>>
     ELSE IF i = 0 THEN <<t>>
     ELSE <<SubSeq(t, 1, i - 1)>> \o Split(From(t, i))

\* sorted(set of str)
RECURSIVE SortedSet(_)
SortedSet(S) ==
  IF S = {} THEN <<>>
  ELSE LET m == CHOOSE x \in S : \A y \in S \ {x} : StrLess(x, y)
       IN <<m>> \o SortedSet(S \ {m})

\* length of the longest common subsequence of two strings
RECURSIVE LCS(_, _)
LCS(a, b) ==
  IF a = <<>> \/ b = <<>> THEN 0
  ELSE IF a[1] = b[1] THEN 1 + LCS(Tail(a), Tail(b))
  ELSE Max(LCS(Tail(a), b), LCS(a, Tail(b)))

\* rapidfuzz Indel distance: insertions and deletions turning a into b
indel_distance(a, b) == Len(a) + Len(b) - 2 * LCS(a, b)

\* rapidfuzz norm_distance<100>: 100 - 100 * dist / lensum, 100 for lensum = 0
norm_distance(dist, lensum) ==
  IF lensum > 0 THEN Frac(100 * (lensum - dist), lensum) ELSE Frac(100, 1)

\* set(s.split())
TokenSet(s) == {Split(s)[i] : i \in 1..Len(Split(s))}

\* token_set_ratio, last part: the best of the three ratios, from the Indel
\* distance of the joined differences, their lengths and the length of the
\* joined intersection
SetRatios(dist, ab_len, ba_len, sect_len) ==
  LET sep == IF sect_len # 0 THEN 1 ELSE 0
      sect_ab_len == sect_len + sep + ab_len
      sect_ba_len == sect_len + sep + ba_len
      result == norm_distance(dist, sect_ab_len + sect_ba_len)
  IN IF sect_len = 0 THEN result
     ELSE FracMax(result,
                  FracMax(norm_distance(sep + ab_len, sect_len + sect_ab_len),
                          norm_distance(sep + ba_len, sect_len + sect_ba_len)))

JoinedRatio(diff_ab_joined, diff_ba_joined, sect_len) ==
  SetRatios(indel_distance(diff_ab_joined, diff_ba_joined),
            Len(diff_ab_joined), Len(diff_ba_joined), sect_len)

\* token_set_ratio on the two token sets: 0 when one is empty, 100 when one
\* contains the other, else the ratios of the sorted, joined differences
TokenSetsRatio(tokens_a, tokens_b) ==
  IF tokens_a = {} \/ tokens_b = {} THEN Frac(0, 1)
  ELSE IF /\ tokens_a \cap tokens_b # {}
          /\ (tokens_a \ tokens_b = {} \/ tokens_b \ tokens_a = {})
    THEN Frac(100, 1)
  ELSE JoinedRatio(Join(SortedSet(tokens_a \ tokens_b), <<" ">>),
                   Join(SortedSet(tokens_b \ tokens_a), <<" ">>),
                   Len(Join(SortedSet(tokens_a \cap tokens_b), <<" ">>)))

\* rapidfuzz.fuzz.token_set_ratio(s1, s2) with no processor and no cutoff
token_set_ratio(s1, s2) ==
  IF s1 = <<>> \/ s2 = <<>> THEN Frac(0, 1)
  ELSE TokenSetsRatio(TokenSet(s1), TokenSet(s2))

\* the inputs of the model: titles, sources, publication times in seconds
Title_a_b == <<"a", " ", "b">>

Title_c_d == <<"c", " ", " ", "d">>

Title_a_c_d == <<"a", " ", "c", " ", "d">>

ClusterTitles == {Title_a_b, Title_c_d, Title_a_c_d}

ClusterSources == {"coindesk", "theblock"}

PublishTimes == {0, 60, 61}

Windows == {1}

Thresholds == {[num |-> 1, den |-> 2], [num |-> 3, den |-> 4]}

MaxItems == 3

ItemChoices ==
  [title : ClusterTitles, source : ClusterSources, published_at : PublishTimes]

\* the lists of n items; the i-th item of a list has the URL i
ItemLists(n) ==
  { [i \in 1..n |-> [title |-> f[i].title, source |-> f[i].source,
                     published_at |-> f[i].published_at, url |-> i]] :
      f \in [1..n -> ItemChoices] }

\* the similarities of the model's titles, computed once
SimOf ==
  [a \in ClusterTitles, b \in ClusterTitles |->
     token_set_ratio(normalize_title(a), normalize_title(b))]

\* sorted(items, key=lambda item: item.published_at), a stable sort
RECURSIVE InsertItem(_, _)
InsertItem(x, sorted) ==
  IF sorted = <<>> THEN <<x>>
  ELSE IF x.published_at < sorted[1].published_at THEN <<x>> \o sorted
  ELSE <<sorted[1]>> \o InsertItem(x, Tail(sorted))

\* the items in the order given
GivenOrder(its) == its

RECURSIVE SortItems(_)
SortItems(its) ==
  IF its = <<>> THEN <<>>
  ELSE InsertItem(its[Len(its)], SortItems(SubSeq(its, 1, Len(its) - 1)))

\* ClusterCandidate(canonical_title=title)
ClusterCandidate(title) ==
  [canonical_title |-> title, items |-> <<>>, similarities |-> <<>>]

\* the similarity recorded last, 0 when there is none
LastSimilarity(sims) ==
  IF sims = <<>> THEN Frac(0, 1) ELSE sims[Len(sims)]

\* max(similarities, default=0)
RECURSIVE MaxSimilarity(_)
MaxSimilarity(sims) ==
  IF sims = <<>> THEN Frac(0, 1)
  ELSE FracMax(sims[1], MaxSimilarity(Tail(sims)))

\* an add that keeps only the item added last
ClusterAddReplacing(cluster, item, similarity) ==
  [canonical_title |-> cluster.canonical_title,
   items |-> <<item>>,
   similarities |-> <<similarity>>]

\* an add that also takes the title of an item as similar as the best so far
ClusterAddNotStrict(cluster, item, similarity) ==
  [canonical_title |->
     IF ~FracLess(similarity, MaxSimilarity(cluster.similarities))
       THEN item.title ELSE cluster.canonical_title,
   items |-> Append(cluster.items, item),
   similarities |-> Append(cluster.similarities, similarity)]

\* ClusterCandidate.add(item, similarity)
ClusterAdd(cluster, item, similarity) ==
  [canonical_title |->
     IF FracLess(MaxSimilarity(cluster.similarities), similarity)
       THEN item.title ELSE cluster.canonical_title,
   items |-> Append(cluster.items, item),
   similarities |-> Append(cluster.similarities, similarity)]

\* ClusterCandidate.first_seen / last_seen
first_seen(cluster) ==
  LET T == {cluster.items[i].published_at : i \in 1..Len(cluster.items)}
  IN CHOOSE t \in T : \A u \in T : t <= u

last_seen(cluster) ==
  LET T == {cluster.items[i].published_at : i \in 1..Len(cluster.items)}
  IN CHOOSE t \in T : \A u \in T : t >= u

\* a window test anchored on the latest member
InWindowLastSeen(item, cluster, wm) ==
  ~(Abs(item.published_at - last_seen(cluster)) > wm * 60)

\* cluster_news, line 111: the cluster is not skipped
InWindow(item, cluster, wm) ==
  ~(Abs(item.published_at - first_seen(cluster)) > wm * 60)

\* cluster_news, line 113
Similarity(item, cluster) == SimOf[item.title, cluster.canonical_title]

\* cluster_news, line 114: similarity / 100.0 >= similarity_threshold
MeetsThreshold(similarity, thr) ==
  similarity.num * thr.den >= thr.num * 100 * similarity.den

Matches(item, cluster, wm, thr) ==
  /\ InWindow(item, cluster, wm)
  /\ MeetsThreshold(Similarity(item, cluster), thr)

\* a scan that picks the matching cluster of highest similarity
BestMatch(item, cls, wm, thr) ==
  LET M == {i \in 1..Len(cls) : Matches(item, cls[i], wm, thr)}
  IN IF M = {} THEN 0
     ELSE CHOOSE i \in M :
            \A j \in M :
              \/ FracLess(Similarity(item, cls[j]), Similarity(item, cls[i]))
              \/ (Similarity(item, cls[j]) = Similarity(item, cls[i]) /\ i <= j)

\* cluster_news, lines 110-117: the position of the cluster the scan stops
\* at, 0 when it runs through
FirstMatch(item, cls, wm, thr) ==
  LET M == {i \in 1..Len(cls) : Matches(item, cls[i], wm, thr)}
  IN IF M = {} THEN 0 ELSE CHOOSE i \in M : \A j \in M : i <= j

\* a source count that counts the members
SourceCountMembers(cluster) == Len(cluster.items)

\* to_schema, line 95: len({item.source for item in self.items})
SourceCount(cluster) ==
  Cardinality({cluster.items[i].source : i \in 1..Len(cluster.items)})

\* ClusterCandidate.to_schema: the fields of the NewsCluster that depend on
\* the membership
to_schema(cluster) ==
  [canonical_title |-> cluster.canonical_title,
   source_count |-> SourceCount(cluster),
   first_seen |-> first_seen(cluster),
   last_seen |-> last_seen(cluster),
   links |-> [i \in 1..Len(cluster.items) |-> cluster.items[i].url]]

\* cluster_news is called
ClusterInit ==
  /\ \E n \in 0..MaxItems : items \in ItemLists(n)
  /\ window_minutes \in Windows
  /\ similarity_threshold \in Thresholds
  /\ sorted_items = <<>>
  /\ clusters = <<>>
  /\ cursor = 0
  /\ cpc = "sort"
  /\ placed = <<>>
  /\ returned = <<>>
  /\ LimiterStart /\ clock = 0 /\ DedupeStart /\ FetchStart /\ ServiceStart

\* line 105
Sort ==
  /\ cpc = "sort"
  /\ sorted_items' = SortItems(items)
  /\ cpc' = "loop"
  /\ UNCHANGED <<items, window_minutes, similarity_threshold, clusters, cursor,
                 placed, returned>>
  /\ UNCHANGED nonClusterVars

\* lines 107-117, an iteration whose scan stops at a cluster
Attach ==
  /\ cpc = "loop"
  /\ cursor < Len(sorted_items)
  /\ LET item == sorted_items[cursor + 1]
         i == FirstMatch(item, clusters, window_minutes, similarity_threshold)
     IN /\ i # 0
        /\ clusters' = [clusters EXCEPT
                          ![i] = ClusterAdd(@, item, Similarity(item, @))]
        /\ placed' = Append(placed, [item |-> item, before |-> clusters,
                                     index |-> i])
  /\ cursor' = cursor + 1
  /\ UNCHANGED <<items, window_minutes, similarity_threshold, sorted_items,
                 cpc, returned>>
  /\ UNCHANGED nonClusterVars

\* lines 107-121, an iteration whose scan matches no cluster
Open ==
  /\ cpc = "loop"
  /\ cursor < Len(sorted_items)
  /\ LET item == sorted_items[cursor + 1]
         i == FirstMatch(item, clusters, window_minutes, similarity_threshold)
     IN /\ i = 0
        /\ clusters' = Append(clusters,
                              ClusterAdd(ClusterCandidate(item.title), item,
                                         Frac(100, 1)))
        /\ placed' = Append(placed, [item |-> item, before |-> clusters,
                                     index |-> 0])
  /\ cursor' = cursor + 1
  /\ UNCHANGED <<items, window_minutes, similarity_threshold, sorted_items,
                 cpc, returned>>
  /\ UNCHANGED nonClusterVars

\* line 123
Return ==
  /\ cpc = "loop"
  /\ cursor = Len(sorted_items)
  /\ returned' = [i \in 1..Len(clusters) |-> to_schema(clusters[i])]
  /\ cpc' = "done"
  /\ UNCHANGED <<items, window_minutes, similarity_threshold, sorted_items,
                 clusters, cursor, placed>>
  /\ UNCHANGED nonClusterVars

ClusterNext == Sort \/ Attach \/ Open \/ Return

SpecCluster == ClusterInit /\ [][ClusterNext]_vars

(***************************************************************************)
(* Clustering claims                                                       *)
(***************************************************************************)

\* the positions of the clusters that hold the item with URL u
ClustersOf(u) ==
  {j \in 1..Len(clusters) :
     \E m \in 1..Len(clusters[j].items) : clusters[j].items[m].url = u}

\* the clusters a placed item met that were inside the window and similar
\* enough
Eligible(p) ==
  {j \in 1..Len(p.before) :
     Matches(p.item, p.before[j], window_minutes, similarity_threshold)}

\* C8: every placed item is in exactly one cluster: the earliest-created of
\* the clusters it met that were inside the window and met the threshold, or
\* a new cluster when there was none; a later cluster of higher similarity
\* does not change that.
C8_FirstMatchWins ==
  \A k \in 1..Len(placed) :
    ClustersOf(placed[k].item.url) =
      { IF Eligible(placed[k]) = {}
          THEN Len(placed[k].before) + 1
          ELSE CHOOSE i \in Eligible(placed[k]) :
                 \A j \in Eligible(placed[k]) : i <= j }

\* an item was attached to a cluster although a cluster created later, also
\* inside the window, was strictly more similar to it
C8_Witness ==
  \E k \in 1..Len(placed) :
    \E i \in Eligible(placed[k]), j \in Eligible(placed[k]) :
      /\ i < j
      /\ FracLess(Similarity(placed[k].item, placed[k].before[i]),
                  Similarity(placed[k].item, placed[k].before[j]))
      /\ ClustersOf(placed[k].item.url) = {i}

\* the time between a placed item and the first_seen of a cluster it met
FromFirstSeen(p, j) == Abs(p.item.published_at - first_seen(p.before[j]))

\* C9: an item is never attached to a cluster whose first_seen is more than
\* window_minutes * 60 seconds from its published_at; a cluster exactly that
\* far and similar enough does take it (unless an earlier cluster did); and
\* two items with the same title published further apart than the window
\* are never in the same cluster.
C9_WindowOnFirstSeen ==
  /\ \A k \in 1..Len(placed) :
       placed[k].index # 0 =>
         FromFirstSeen(placed[k], placed[k].index) <= window_minutes * 60
  /\ \A k \in 1..Len(placed) :
       \A j \in 1..Len(placed[k].before) :
         ( /\ FromFirstSeen(placed[k], j) = window_minutes * 60
           /\ MeetsThreshold(Similarity(placed[k].item, placed[k].before[j]),
                             similarity_threshold) )
           => (placed[k].index # 0 /\ placed[k].index <= j)
  /\ \A k \in 1..Len(placed), l \in 1..Len(placed) :
       ( /\ placed[k].item.title = placed[l].item.title
         /\ Abs(placed[k].item.published_at - placed[l].item.published_at)
              > window_minutes * 60 )
         => ClustersOf(placed[k].item.url) \cap ClustersOf(placed[l].item.url) = {}

\* one item was attached exactly window_minutes * 60 seconds after first_seen,
\* and an item with the cluster's title, inside the window of its last_seen
\* but outside that of its first_seen, opened a cluster of its own
C9_Witness ==
  /\ \E k \in 1..Len(placed) :
       /\ placed[k].index # 0
       /\ FromFirstSeen(placed[k], placed[k].index) = window_minutes * 60
  /\ \E k \in 1..Len(placed) :
       /\ placed[k].index = 0
       /\ \E j \in 1..Len(placed[k].before) :
            /\ placed[k].before[j].canonical_title = placed[k].item.title
            /\ Abs(placed[k].item.published_at - last_seen(placed[k].before[j]))
                 <= window_minutes * 60
            /\ FromFirstSeen(placed[k], j) > window_minutes * 60
            /\ ClustersOf(placed[k].item.url) = {Len(placed[k].before) + 1}

\* the two items of a two-item input match within the window
TwoItemsMatch ==
  /\ Len(sorted_items) = 2
  /\ sorted_items[1].source # sorted_items[2].source
  /\ sorted_items[2].published_at - sorted_items[1].published_at
       <= window_minutes * 60
  /\ MeetsThreshold(SimOf[sorted_items[2].title, sorted_items[1].title],
                    similarity_threshold)

\* C10: in what cluster_news returns, source_count is the number of distinct
\* sources among the cluster's members, at least 1 and at most the number of
\* links; two items from different sources that match within the window give
\* exactly one cluster, with source_count 2.
C10_SourceCount ==
  cpc = "done" =>
    /\ Len(returned) = Len(clusters)
    /\ \A i \in 1..Len(returned) :
         /\ returned[i].source_count =
              Cardinality({clusters[i].items[m].source :
                             m \in 1..Len(clusters[i].items)})
         /\ 1 <= returned[i].source_count
         /\ returned[i].source_count <= Len(returned[i].links)
    /\ TwoItemsMatch => (Len(returned) = 1 /\ returned[1].source_count = 2)

\* two items with different titles and sources were returned as one cluster
\* of source_count 2 with two links
C10_Witness ==
  /\ cpc = "done"
  /\ TwoItemsMatch
  /\ sorted_items[1].title # sorted_items[2].title
  /\ Len(returned) = 1
  /\ returned[1].source_count = 2
  /\ Len(returned[1].links) = 2

\* the position in the attachment history of the item with URL u
PlacedAt(u) == CHOOSE k \in 1..Len(placed) : placed[k].item.url = u

\* C11: what cluster_news returns for n items holds every item in exactly
\* one cluster: the links of all clusters are n entries, one per input item,
\* each cluster's links are in the order the items were attached, and one
\* input item gives one cluster with one link and source_count 1.
C11_EveryItemInOneCluster ==
  cpc = "done" =>
    /\ \A i \in 1..Len(items) :
         Cardinality({c \in 1..Len(returned) :
                        \E m \in 1..Len(returned[c].links) :
                          returned[c].links[m] = items[i].url}) = 1
    /\ \A c \in 1..Len(returned) :
         /\ Len(returned[c].links) >= 1
         /\ \A m \in 1..Len(returned[c].links) :
              \E i \in 1..Len(items) : returned[c].links[m] = items[i].url
         /\ \A m1 \in 1..Len(returned[c].links), m2 \in 1..Len(returned[c].links) :
              m1 < m2 => PlacedAt(returned[c].links[m1]) < PlacedAt(returned[c].links[m2])
    /\ Len(items) = 1 =>
         /\ Len(returned) = 1
         /\ Len(returned[1].links) = 1
         /\ returned[1].source_count = 1

\* three items came back as two clusters, one of them with two links whose
\* attachment order is the reverse of the input order
C11_Witness ==
  /\ cpc = "done"
  /\ Len(items) = 3
  /\ Len(returned) = 2
  /\ \E c \in 1..Len(returned) :
       /\ Len(returned[c].links) = 2
       /\ returned[c].links[1] > returned[c].links[2]

(***************************************************************************)
(* INGESTION RUN  (src/api/news_fetch.py, src/src/http_clients.py,         *)
(*                 src/src/extractors/rss.py)                              *)
(***************************************************************************)
\* stop_after_attempt(3)
MaxAttempts == 3

MaxEntries == 2

\* the host of the feed and the hosts of the links its entries carry
FeedHost == "feeds.a.com"

ArticleHosts == {"www.a.com", "b.org"}

\* domain_from_url: the registered domain of a URL's host
DomainOf ==
  [h \in ArticleHosts \cup {FeedHost} |-> IF h = "b.org" THEN "b.org" ELSE "a.com"]

\* the feeds of at most n entries, each entry given by the host of its link
Feeds(n) == UNION {[1..m -> ArticleHosts] : m \in 0..n}

\* one attempt of _request (client.request, line 50) as the history keeps it
Attempt(host, what) ==
  [host |-> host, what |-> what, attempt |-> attempt + 1,
   granted |-> permit = DomainOf[host]]

\* fetch_news is called for one source; ROBOTS_CACHE holds what earlier runs
\* of the process left
FetchInit ==
  /\ feed \in Feeds(MaxEntries)
  /\ todo = <<>>
  /\ fpc = "rss"
  /\ attempt = 0
  /\ ROBOTS_CACHE \in SUBSET ArticleHosts
  /\ permit = NoDomain
  /\ sent = {}
  /\ collected = 0
  /\ LimiterStart /\ DedupeStart /\ ClusterStart /\ ServiceStart

\* fetch_news, line 121: fetch_rss_feed -> request_text -> one attempt of
\* _request; a failed attempt is retried until the third
SendRss ==
  /\ fpc = "rss"
  /\ sent' = sent \cup {Attempt(FeedHost, "rss")}
  /\ permit' = NoDomain
  /\ \E ok \in BOOLEAN :
       IF ok
         THEN fpc' = "entry" /\ todo' = feed /\ attempt' = 0
       ELSE IF attempt + 1 < MaxAttempts
         THEN fpc' = "rss" /\ todo' = todo /\ attempt' = attempt + 1
       ELSE fpc' = "failed" /\ todo' = todo /\ attempt' = 0
  /\ UNCHANGED <<feed, ROBOTS_CACHE, collected>>
  /\ UNCHANGED <<limiterVars, dedupeVars, clusterVars, serviceVars>>

\* fetch_news, line 123, and _build_news_item up to _get_robots, line 36: the
\* next entry, whose robots parser is cached or has to be fetched
NextEntry ==
  /\ fpc = "entry"
  /\ todo # <<>>
  /\ fpc' = IF Head(todo) \in ROBOTS_CACHE THEN "can_fetch" ELSE "robots"
  /\ attempt' = 0
  /\ UNCHANGED <<feed, todo, ROBOTS_CACHE, permit, sent, collected>>
  /\ UNCHANGED <<limiterVars, dedupeVars, clusterVars, serviceVars>>

\* _get_robots, line 41: request_text for /robots.txt, one attempt of
\* _request; after the third failure the except branch is taken
SendRobots ==
  /\ fpc = "robots"
  /\ sent' = sent \cup {Attempt(Head(todo), "robots")}
  /\ permit' = NoDomain
  /\ \E ok \in BOOLEAN :
       IF ok
         THEN /\ fpc' = "can_fetch"
              /\ attempt' = 0
              /\ ROBOTS_CACHE' = ROBOTS_CACHE \cup {Head(todo)}
       ELSE IF attempt + 1 < MaxAttempts
         THEN fpc' = "robots" /\ attempt' = attempt + 1
              /\ ROBOTS_CACHE' = ROBOTS_CACHE
       ELSE fpc' = "robots_read" /\ attempt' = 0 /\ ROBOTS_CACHE' = ROBOTS_CACHE
  /\ UNCHANGED <<feed, todo, collected>>
  /\ UNCHANGED <<limiterVars, dedupeVars, clusterVars, serviceVars>>

\* _get_robots, lines 42-47: robots.read() requests /robots.txt once more; an
\* HTTP error status is absorbed by read(), any other failure leaves
\* fetch_news
RobotsRead ==
  /\ fpc = "robots_read"
  /\ sent' = sent \cup {Attempt(Head(todo), "robots_read")}
  /\ permit' = NoDomain
  /\ \E ok \in BOOLEAN :
       IF ok
         THEN fpc' = "can_fetch" /\ ROBOTS_CACHE' = ROBOTS_CACHE \cup {Head(todo)}
         ELSE fpc' = "failed" /\ ROBOTS_CACHE' = ROBOTS_CACHE
  /\ UNCHANGED <<feed, todo, attempt, collected>>
  /\ UNCHANGED <<limiterVars, dedupeVars, clusterVars, serviceVars>>

\* _allowed, line 57, and _build_news_item, lines 78-79: an entry robots.txt
\* forbids is dropped
CanFetch ==
  /\ fpc = "can_fetch"
  /\ \E allowed \in BOOLEAN :
       IF allowed
         THEN fpc' = "allow" /\ todo' = todo
         ELSE fpc' = "entry" /\ todo' = Tail(todo)
  /\ UNCHANGED <<feed, attempt, ROBOTS_CACHE, permit, sent, collected>>
  /\ UNCHANGED <<limiterVars, dedupeVars, clusterVars, serviceVars>>

\* _build_news_item, lines 80-83: allow_request(domain_from_url(link)); the
\* entry is dropped when the limiter says no
AllowRequest ==
  /\ fpc = "allow"
  /\ LET r == allow(buckets, DomainOf[Head(todo)], clock, clock)
     IN /\ buckets' = r.buckets
        /\ IF r.ok
             THEN fpc' = "article" /\ permit' = DomainOf[Head(todo)]
                  /\ todo' = todo
             ELSE fpc' = "entry" /\ permit' = NoDomain /\ todo' = Tail(todo)
  /\ attempt' = 0
  /\ UNCHANGED <<feed, ROBOTS_CACHE, sent, collected>>
  /\ UNCHANGED <<clock, lock, pc, arg, found, ret, calls, created, granted,
                 finished, keyHist, last, snap, readAt, clockMoved>>
  /\ UNCHANGED <<dedupeVars, clusterVars, serviceVars>>

\* _fetch_article, line 65: request_text for the article, one attempt of
\* _request; fetch_news collects the item of a fetched article
SendArticle ==
  /\ fpc = "article"
  /\ sent' = sent \cup {Attempt(Head(todo), "article")}
  /\ permit' = NoDomain
  /\ \E ok \in BOOLEAN :
       IF ok
         THEN /\ fpc' = "entry"
              /\ todo' = Tail(todo)
              /\ attempt' = 0
              /\ collected' = collected + 1
       ELSE IF attempt + 1 < MaxAttempts
         THEN fpc' = "article" /\ todo' = todo /\ attempt' = attempt + 1
              /\ collected' = collected
       ELSE fpc' = "failed" /\ todo' = todo /\ attempt' = 0
            /\ collected' = collected
  /\ UNCHANGED <<feed, ROBOTS_CACHE>>
  /\ UNCHANGED <<limiterVars, dedupeVars, clusterVars, serviceVars>>

\* fetch_news, lines 146-147: every entry was handled
Finish ==
  /\ fpc = "entry"
  /\ todo = <<>>
  /\ fpc' = "done"
  /\ UNCHANGED <<feed, todo, attempt, ROBOTS_CACHE, permit, sent, collected>>
  /\ UNCHANGED <<limiterVars, dedupeVars, clusterVars, serviceVars>>

FetchNext ==
  \/ SendRss
  \/ NextEntry
  \/ SendRobots
  \/ RobotsRead
  \/ CanFetch
  \/ AllowRequest
  \/ SendArticle
  \/ Finish
  \/ ClockAdvance

SpecFetch == FetchInit /\ [][FetchNext]_vars

(***************************************************************************)
(* Ingestion claims                                                        *)
(***************************************************************************)

\* C4: every HTTP request attempt of a run (feed, robots.txt, article, each
\* retry) was preceded by an allow() for its host that returned true for
\* that attempt.
C4_EveryAttemptGranted == \A a \in sent : a.granted

\* what the code does ensure: the first attempt of an article request follows
\* a granted allow_request() for the registered domain of its host
C4_FirstArticleAttemptGranted ==
  \A a \in sent : (a.what = "article" /\ a.attempt = 1) => a.granted

(***************************************************************************)
(* STORAGE  (src/src/storage.py)                                           *)
(*                                                                         *)
(* A stored record is a function from field names to values.  A timestamp  *)
(* string is kept as the instant it denotes, in seconds, and the UTC       *)
(* offset it is written with ("" when it carries none).                    *)
(***************************************************************************)
\* datetime.isoformat() of a datetime that is offset-aware (UTC) or naive
isoformat(t, aware) ==
  [instant |-> t, offset |-> IF aware THEN "+00:00" ELSE ""]

\* StorageBackend.put_json(key, data): the key holds data, whatever it held
put_json(st, key, data) ==
  [k \in DOMAIN st \cup {key} |-> IF k = key THEN data ELSE st[k]]

(***************************************************************************)
(* CLUSTERING ENTRY POINT  (src/api/analyze_news.py)                       *)
(***************************************************************************)
MaxAnalyzeItems == 2

Str_cluster == <<"c", "l", "u", "s", "t", "e", "r", "-">>

\* two hashes that agree on their first 12 characters, and a short one
Hash_a1 == <<"a", "a", "a", "a", "a", "a", "a", "a", "a", "a", "a", "a", "1">>

Hash_a2 == <<"a", "a", "a", "a", "a", "a", "a", "a", "a", "a", "a", "a", "2">>

Hash_b == <<"b">>

AnalyzeHashes == {Hash_a1, Hash_a2, Hash_b}

\* seconds; the last one falls on the next day
AnalyzeTimes == {0, 61, 86400}

AnalyzeTitles == {Title_a_b, Title_a_c_d}

\* NewsItem as AnalyzeNewsRequest validates it: published_at is any
\* datetime, with a UTC offset (aware) or without one
AnalyzeItemChoices ==
  [title : AnalyzeTitles, published_at : AnalyzeTimes, aware : BOOLEAN,
   hash : AnalyzeHashes]

AnalyzeItemLists(n) ==
  { [i \in 1..n |-> [title |-> f[i].title, source |-> "coindesk",
                     published_at |-> f[i].published_at, url |-> i,
                     aware |-> f[i].aware, hash |-> f[i].hash]] :
      f \in [1..n -> AnalyzeItemChoices] }

\* comparing or subtracting an offset-aware and a naive datetime raises
\* TypeError; sorted() compares members of both kinds when both occur
SortRaises(its) ==
  \E i, j \in 1..Len(its) : its[i].aware # its[j].aware

\* freshness_score, line 70: datetime.now(timezone.utc) - self.first_seen
FreshnessRaises(cluster) ==
  \E m \in 1..Len(cluster.items) :
    /\ cluster.items[m].published_at = first_seen(cluster)
    /\ ~cluster.items[m].aware

\* cluster_news, lines 108-121: one iteration, the scan having stopped at
\* cluster i (0: at none)
PlaceItem(item, cls, i) ==
  IF i = 0
    THEN Append(cls, ClusterAdd(ClusterCandidate(item.title), item,
                                Frac(100, 1)))
    ELSE [cls EXCEPT ![i] = ClusterAdd(@, item, Similarity(item, @))]

\* cluster_news, lines 106-121
RECURSIVE PlaceAll(_, _, _, _)
PlaceAll(sorted, cls, wm, thr) ==
  IF sorted = <<>> THEN cls
  ELSE PlaceAll(Tail(sorted),
                PlaceItem(sorted[1], cls, FirstMatch(sorted[1], cls, wm, thr)),
                wm, thr)

\* to_schema, line 91: f"cluster-{self.items[0].hash[:12]}"
cluster_id(cluster) ==
  Str_cluster \o SubSeq(cluster.items[1].hash, 1,
                        Min(12, Len(cluster.items[1].hash)))

\* to_schema: the NewsCluster of a candidate
NewsCluster(cluster) ==
  [cluster_id |-> cluster_id(cluster)] @@ to_schema(cluster)

TypeError == [raised |-> TRUE, clusters |-> <<>>]

\* cluster_news, line 123, given the candidates
Schemas(cls) ==
  IF \E i \in 1..Len(cls) : FreshnessRaises(cls[i]) THEN TypeError
  ELSE [raised |-> FALSE,
        clusters |-> [i \in 1..Len(cls) |-> NewsCluster(cls[i])]]

\* cluster_news(items, window_minutes, similarity_threshold, origin)
cluster_news(its, wm, thr) ==
  IF SortRaises(its) THEN TypeError
  ELSE Schemas(PlaceAll(SortItems(its), <<>>, wm, thr))

\* analyze, line 25: the key of a cluster; {first_seen:%Y%m%d} is the day
ClusterKey(cluster) ==
  [prefix |-> "news/clustered", day |-> cluster.first_seen \div 86400,
   name |-> cluster.cluster_id]

\* analyze, lines 28-32: the record of a cluster
ClusterRecord(cluster) ==
  [created_at |-> isoformat(cluster.first_seen, TRUE), ttl_days |-> 30]
    @@ cluster

\* analyze is called with a payload that AnalyzeNewsRequest accepts
AnalyzeInit ==
  /\ \E n \in 0..MaxAnalyzeItems :
       request \in [items : AnalyzeItemLists(n),
                    confirm_window_minutes : Windows,
                    similarity_threshold : Thresholds]
  /\ apc = "validate"
  /\ response = <<>>
  /\ stored = 0
  /\ status = 0
  /\ StorageStart
  /\ LimiterStart /\ clock = 0 /\ DedupeStart /\ ClusterStart /\ FetchStart
  /\ SweepStart /\ IngestStart /\ RecallStart /\ MarketStart /\ CanonStart
  /\ LaterStart

\* lines 20-21: raise HttpError(HTTPStatus.BAD_REQUEST, ...)
AnalyzeReject ==
  /\ apc = "validate"
  /\ request.items = <<>>
  /\ status' = 400
  /\ apc' = "done"
  /\ UNCHANGED <<request, response, stored, store>>
  /\ UNCHANGED nonAnalyzeVars

\* line 22, cluster_news returns
AnalyzeCluster ==
  /\ apc = "validate"
  /\ request.items # <<>>
  /\ LET r == cluster_news(request.items, request.confirm_window_minutes,
                           request.similarity_threshold)
     IN /\ ~r.raised
        /\ response' = r.clusters
  /\ apc' = "store"
  /\ UNCHANGED <<request, stored, status, store>>
  /\ UNCHANGED nonAnalyzeVars

\* line 22, cluster_news raises TypeError: the handler answers 500
\* (api_utils.py, lines 76-78)
AnalyzeRaise ==
  /\ apc = "validate"
  /\ request.items # <<>>
  /\ cluster_news(request.items, request.confirm_window_minutes,
                  request.similarity_threshold).raised
  /\ status' = 500
  /\ apc' = "done"
  /\ UNCHANGED <<request, response, stored, store>>
  /\ UNCHANGED nonAnalyzeVars

\* lines 24-33, one iteration
AnalyzePut ==
  /\ apc = "store"
  /\ stored < Len(response)
  /\ store' = put_json(store, ClusterKey(response[stored + 1]),
                       ClusterRecord(response[stored + 1]))
  /\ stored' = stored + 1
  /\ UNCHANGED <<request, apc, response, status>>
  /\ UNCHANGED nonAnalyzeVars

\* lines 34-35
AnalyzeReturn ==
  /\ apc = "store"
  /\ stored = Len(response)
  /\ status' = 200
  /\ apc' = "done"
  /\ UNCHANGED <<request, response, stored, store>>
  /\ UNCHANGED nonAnalyzeVars

AnalyzeNext ==
  \/ AnalyzeReject
  \/ AnalyzeCluster
  \/ AnalyzeRaise
  \/ AnalyzePut
  \/ AnalyzeReturn

SpecAnalyze == AnalyzeInit /\ [][AnalyzeNext]_vars

(***************************************************************************)
(* Clustering entry point claims                                           *)
(***************************************************************************)

\* C12: analyze fails with HTTP 400 when the item list is empty and then
\* writes nothing to storage; for every non-empty valid item list it
\* completes (HTTP 200) and returns at least one cluster.
C12_EmptyRejectedElseCompletes ==
  apc = "done" =>
    /\ request.items = <<>> => (status = 400 /\ store = EmptyStorage)
    /\ request.items # <<>> => (status = 200 /\ Len(response) >= 1)

\* what the code does ensure: the empty list is answered with 400 and nothing
\* is written, and a list whose timestamps all carry a UTC offset completes
\* with at least one cluster
C12_CompletesWhenAware ==
  apc = "done" =>
    /\ request.items = <<>> => (status = 400 /\ store = EmptyStorage)
    /\ (request.items # <<>> /\ \A i \in 1..Len(request.items) :
                                  request.items[i].aware)
         => (status = 200 /\ Len(response) >= 1)
    /\ status # 200 => store = EmptyStorage

(***************************************************************************)
(* RETENTION SWEEP  (src/api/admin_cleanup.py, src/src/storage.py)         *)
(***************************************************************************)
PREFIXES == <<"news/raw", "news/clustered", "market", "logs">>

\* storage.list(prefix, limit=1000)
ScanLimit == 1000

\* record.get("ttl_days", 14)
DefaultTtlDays == 14

\* timedelta.days counts whole days of 86400 seconds
SecondsPerDay == 86400

\* StorageBackend.get_json(key)
get_json(st, key) == IF key \in DOMAIN st THEN st[key] ELSE None

\* StorageBackend.delete(key)
delete(st, key) == [k \in DOMAIN st \ {key} |-> st[k]]

\* a delete that removes the key in a dry run too
DeleteAlways(st, key, dry) == delete(st, key)

\* cleanup, lines 45-46
DeleteUnlessDry(st, key, dry) == IF dry THEN st ELSE delete(st, key)

\* sorted(results) of the keys of one prefix
KeyLess(a, b) == a.day < b.day \/ (a.day = b.day /\ StrLess(a.name, b.name))

RECURSIVE SortKeySet(_)
SortKeySet(S) ==
  IF S = {} THEN <<>>
  ELSE LET least == CHOOSE k \in S : \A j \in S \ {k} : KeyLess(k, j)
       IN <<least>> \o SortKeySet(S \ {least})

\* sorted(results): the keys fetch_news wrote end in a SHA-256 digest, whose
\* order the model does not compute, so they may come in any order
KeyOrders(S) ==
  IF \E k \in S : "source" \in DOMAIN k
    THEN {q \in [1..Cardinality(S) -> S] :
            \A i, j \in 1..Cardinality(S) : q[i] = q[j] => i = j}
    ELSE {SortKeySet(S)}

KeysUnder(st, prefix) == {k \in DOMAIN st : k.prefix = prefix}

\* LocalStorage.list(prefix, limit): the walk stops after `limit` files, in
\* whatever order the directory delivers them; the result is sorted
Listings(st, prefix, limit) ==
  UNION {KeyOrders(S) :
     S \in {T \in SUBSET KeysUnder(st, prefix) :
              Cardinality(T) = Min(limit, Cardinality(KeysUnder(st, prefix)))}}

\* a test that skips only a record that was not read
AbsentOnly(record) == record = None

\* cleanup, line 34: not record
Falsy(record) == record = None \/ DOMAIN record = {}

\* cleanup, line 36: record.get("created_at")
CreatedAt(record) ==
  IF "created_at" \in DOMAIN record THEN record.created_at ELSE None

\* cleanup, line 37: record.get("ttl_days", 14)
TtlDays(record) ==
  IF "ttl_days" \in DOMAIN record THEN record.ttl_days ELSE DefaultTtlDays

\* _parse_timestamp: a trailing Z stands for +00:00
parse_timestamp(value) ==
  [instant |-> value.instant, aware |-> value.offset \in {"Z", "+00:00"}]

\* cleanup, line 42: (now - created).days, the floor of the difference
AgeDays(t, created_dt) == (t - created_dt.instant) \div SecondsPerDay

\* an expiry test that needs more than ttl_days whole days
ExpiredStrict(record, t) ==
  AgeDays(t, parse_timestamp(CreatedAt(record))) > TtlDays(record)

\* cleanup, lines 41-43
Expired(record, t) ==
  AgeDays(t, parse_timestamp(CreatedAt(record))) >= TtlDays(record)

\* the time of the sweep
SweepNow == 40 * SecondsPerDay

Key_raw_a == [prefix |-> "news/raw", day |-> 26, name |-> <<"a">>]

Key_raw_b == [prefix |-> "news/raw", day |-> 26, name |-> <<"b">>]

Key_clustered == [prefix |-> "news/clustered", day |-> 39, name |-> Str_cluster]

SweepKeys == {Key_raw_a, Key_raw_b, Key_clustered}

\* created_at values: 14 days old to the second, one second less, one day
\* old to the second, one second in the future
SweepInstants ==
  {SweepNow - 14 * SecondsPerDay, SweepNow - 14 * SecondsPerDay + 1,
   SweepNow - SecondsPerDay, SweepNow + 1}

\* stored records: written by the service (created_at with or without
\* ttl_days), or placed by hand (no created_at; the empty object)
SweepRecords ==
  {[created_at |-> isoformat(t, TRUE)] : t \in SweepInstants}
    \cup {[created_at |-> isoformat(t, TRUE), ttl_days |-> 1] :
            t \in SweepInstants}
    \cup {[ttl_days |-> 0], [title |-> Title_B], <<>>}

SweepStorages == UNION {[S -> SweepRecords] : S \in SUBSET SweepKeys}

\* cleanup is called
SweepInit ==
  /\ store \in SweepStorages
  /\ store0 = store
  /\ now_utc = SweepNow
  /\ dry_run \in BOOLEAN
  /\ spc = "list"
  /\ prefix_i = 1
  /\ keys = <<>>
  /\ deleted = <<>>
  /\ kept = 0
  /\ visited = <<>>
  /\ prior = NoResult
  /\ LimiterStart /\ clock = 0 /\ DedupeStart /\ ClusterStart /\ FetchStart
  /\ AnalyzeStart /\ IngestStart /\ RecallStart /\ MarketStart /\ CanonStart
  /\ LaterStart

\* line 31
SweepList ==
  /\ spc = "list"
  /\ prefix_i <= Len(PREFIXES)
  /\ keys' \in Listings(store, PREFIXES[prefix_i], ScanLimit)
  /\ spc' = "key"
  /\ UNCHANGED <<store, now_utc, dry_run, prefix_i, deleted, kept, store0,
                 visited, prior>>
  /\ UNCHANGED nonSweepVars

\* lines 33-35: nothing, or an empty record, is read
SweepSkip ==
  /\ spc = "key"
  /\ keys # <<>>
  /\ Falsy(get_json(store, keys[1]))
  /\ keys' = Tail(keys)
  /\ visited' = Append(visited, keys[1])
  /\ UNCHANGED <<store, now_utc, dry_run, spc, prefix_i, deleted, kept, store0,
                 prior>>
  /\ UNCHANGED nonSweepVars

\* lines 33-40: the record has no created_at
SweepKeepUndated ==
  /\ spc = "key"
  /\ keys # <<>>
  /\ ~Falsy(get_json(store, keys[1]))
  /\ CreatedAt(get_json(store, keys[1])) = None
  /\ kept' = kept + 1
  /\ keys' = Tail(keys)
  /\ visited' = Append(visited, keys[1])
  /\ UNCHANGED <<store, now_utc, dry_run, spc, prefix_i, deleted, store0,
                 prior>>
  /\ UNCHANGED nonSweepVars

\* lines 33-46: the record is expired
SweepExpire ==
  /\ spc = "key"
  /\ keys # <<>>
  /\ ~Falsy(get_json(store, keys[1]))
  /\ CreatedAt(get_json(store, keys[1])) # None
  /\ Expired(get_json(store, keys[1]), now_utc)
  /\ deleted' = Append(deleted, keys[1])
  /\ store' = DeleteUnlessDry(store, keys[1], dry_run)
  /\ keys' = Tail(keys)
  /\ visited' = Append(visited, keys[1])
  /\ UNCHANGED <<now_utc, dry_run, spc, prefix_i, kept, store0, prior>>
  /\ UNCHANGED nonSweepVars

\* lines 33-48: the record is not expired
SweepKeep ==
  /\ spc = "key"
  /\ keys # <<>>
  /\ ~Falsy(get_json(store, keys[1]))
  /\ CreatedAt(get_json(store, keys[1])) # None
  /\ ~Expired(get_json(store, keys[1]), now_utc)
  /\ kept' = kept + 1
  /\ keys' = Tail(keys)
  /\ visited' = Append(visited, keys[1])
  /\ UNCHANGED <<store, now_utc, dry_run, spc, prefix_i, deleted, store0,
                 prior>>
  /\ UNCHANGED nonSweepVars

\* line 30: the keys of the prefix are handled
SweepNextPrefix ==
  /\ spc = "key"
  /\ keys = <<>>
  /\ prefix_i' = prefix_i + 1
  /\ spc' = "list"
  /\ UNCHANGED <<store, now_utc, dry_run, keys, deleted, kept, store0, visited,
                 prior>>
  /\ UNCHANGED nonSweepVars

\* lines 49-51
SweepReturn ==
  /\ spc = "list"
  /\ prefix_i > Len(PREFIXES)
  /\ spc' = "done"
  /\ UNCHANGED <<store, now_utc, dry_run, prefix_i, keys, deleted, kept,
                 store0, visited, prior>>
  /\ UNCHANGED nonSweepVars

\* after a dry run, cleanup is called again at the same time with
\* dry_run = False
SweepAgain ==
  /\ spc = "done"
  /\ dry_run
  /\ prior = NoResult
  /\ prior' = [deleted |-> deleted, kept |-> kept]
  /\ dry_run' = FALSE
  /\ store0' = store
  /\ spc' = "list"
  /\ prefix_i' = 1
  /\ keys' = <<>>
  /\ deleted' = <<>>
  /\ kept' = 0
  /\ visited' = <<>>
  /\ UNCHANGED <<store, now_utc>>
  /\ UNCHANGED nonSweepVars

SweepNext ==
  \/ SweepList
  \/ SweepSkip
  \/ SweepKeepUndated
  \/ SweepExpire
  \/ SweepKeep
  \/ SweepNextPrefix
  \/ SweepReturn
  \/ SweepAgain

\* the sweep over a storage whose operations succeed
SpecSweep == SweepInit /\ [][SweepNext]_vars

\* RemoteStorage.get_json, lines 119-123: the request fails and None is
\* returned for a key that holds a record
SweepReadNone ==
  /\ spc = "key"
  /\ keys # <<>>
  /\ keys[1] \in DOMAIN store
  /\ keys' = Tail(keys)
  /\ visited' = Append(visited, keys[1])
  /\ UNCHANGED <<store, now_utc, dry_run, spc, prefix_i, deleted, kept, store0,
                 prior>>
  /\ UNCHANGED nonSweepVars

\* LocalStorage.get_json, lines 64-66: read_text or ujson.loads raises;
\* cleanup, line 33, has no handler
SweepReadRaises ==
  /\ spc = "key"
  /\ keys # <<>>
  /\ spc' = "failed"
  /\ UNCHANGED <<store, now_utc, dry_run, prefix_i, keys, deleted, kept,
                 store0, visited, prior>>
  /\ UNCHANGED nonSweepVars

\* storage.delete raises (unlink, storage.py line 82; request_raw, line
\* 135); cleanup, line 46, has no handler
SweepDeleteRaises ==
  /\ spc = "key"
  /\ keys # <<>>
  /\ ~Falsy(get_json(store, keys[1]))
  /\ CreatedAt(get_json(store, keys[1])) # None
  /\ Expired(get_json(store, keys[1]), now_utc)
  /\ ~dry_run
  /\ deleted' = Append(deleted, keys[1])
  /\ visited' = Append(visited, keys[1])
  /\ spc' = "failed"
  /\ UNCHANGED <<store, now_utc, dry_run, prefix_i, keys, kept, store0, prior>>
  /\ UNCHANGED nonSweepVars

SweepFaultyNext ==
  \/ SweepNext
  \/ SweepReadNone
  \/ SweepReadRaises
  \/ SweepDeleteRaises

\* the sweep over a storage whose reads and deletes may fail
SpecSweepFaulty == SweepInit /\ [][SweepFaultyNext]_vars

(***************************************************************************)
(* Retention sweep claims                                                  *)
(***************************************************************************)
\* the keys of the starting storage that the sweep lists
Listed == {k \in DOMAIN store0 : \E i \in 1..Len(PREFIXES) : PREFIXES[i] = k.prefix}

Dated == {k \in Listed : "created_at" \in DOMAIN store0[k]}

InDeleted(k) == \E i \in 1..Len(deleted) : deleted[i] = k

\* floor((now - createdAt) in whole days) >= ttlDays, 14 when omitted
PastTtl(k) ==
  LET age == (now_utc - store0[k].created_at.instant) \div 86400
      ttl == IF "ttl_days" \in DOMAIN store0[k] THEN store0[k].ttl_days ELSE 14
  IN age >= ttl

Untouched(k) == k \in DOMAIN store /\ store[k] = store0[k]

\* C13: in a non-dry-run sweep, a listed key whose record has a created_at
\* is in the deleted list and removed from storage if and only if its age in
\* whole days is at least ttl_days (14 when omitted); a younger record is
\* left in storage and counted in kept.
C13_DeletedIffPastTtl ==
  (spc = "done" /\ ~dry_run) =>
    /\ \A k \in Dated :
         /\ InDeleted(k) <=> PastTtl(k)
         /\ k \notin DOMAIN store <=> PastTtl(k)
         /\ ~PastTtl(k) => Untouched(k)
    /\ kept >= Cardinality({k \in Dated : ~PastTtl(k)})
    /\ kept <= Cardinality(Listed) - Len(deleted)

C13_Witness ==
  /\ spc = "done" /\ ~dry_run
  /\ \E k \in Dated :
       /\ now_utc - store0[k].created_at.instant = 14 * 86400
       /\ "ttl_days" \notin DOMAIN store0[k]
       /\ InDeleted(k) /\ k \notin DOMAIN store
  /\ \E k \in Dated :
       /\ now_utc - store0[k].created_at.instant = 14 * 86400 - 1
       /\ "ttl_days" \notin DOMAIN store0[k]
       /\ ~InDeleted(k) /\ Untouched(k)
  /\ kept >= 1

\* C14: a dry-run sweep leaves every key and payload as it was, and returns
\* the deleted list and the kept count that a non-dry-run sweep of the same
\* storage at the same time returns.
C14_DryRunSameResult ==
  /\ dry_run => store = store0
  /\ (spc = "done" /\ prior # NoResult) =>
       prior = [deleted |-> deleted, kept |-> kept]

C14_Witness ==
  /\ spc = "done" /\ prior # NoResult
  /\ Len(prior.deleted) >= 1 /\ prior.kept >= 1
  /\ store # store0

\* C15: a stored record without created_at is never deleted, never in the
\* deleted list, whatever its ttl_days and in dry and non-dry sweeps, and it
\* is counted in kept.
C15_UndatedKeptAndCounted ==
  spc = "done" =>
    /\ \A k \in Listed \ Dated : ~InDeleted(k) /\ Untouched(k)
    /\ kept = Cardinality((Listed \ Dated) \cup {k \in Dated : ~PastTtl(k)})

\* what the code does ensure: no record without created_at is deleted or
\* reported, and those that are not the empty object are counted
C15_NonEmptyUndatedCounted ==
  spc = "done" =>
    /\ \A k \in Listed \ Dated : ~InDeleted(k) /\ Untouched(k)
    /\ kept = Cardinality({k \in Listed \ Dated : DOMAIN store0[k] # {}}
                            \cup {k \in Dated : ~PastTtl(k)})

\* C16: a read or delete failure for one key does not stop the sweep; the
\* remaining keys and prefixes are handled and the result is returned.
C16_FailureIsolated == spc # "failed"

\* what the code does ensure: a read that RemoteStorage answers with None is
\* skipped; a sweep stops early only where a storage call raised
C16_SkippedReadGoesOn ==
  (spc = "done" /\ ~dry_run) =>
    \A k \in Dated : (PastTtl(k) /\ ~InDeleted(k)) => Untouched(k)

(***************************************************************************)
(* INGESTION OF ITEMS  (src/api/news_fetch.py, fetch_news and              *)
(*                      _build_news_item; src/src/dedupe.py)               *)
(*                                                                         *)
(* What robots.txt and the rate limiter answer, and whether the article    *)
(* request succeeds, is chosen freely for every entry.                     *)
(***************************************************************************)
MaxRuns == 2

MaxFeedEntries == 2

\* entries handled by the process, over all its runs
MaxHandled == 2

Src_coindesk == <<"c", "o", "i", "n", "d", "e", "s", "k">>

Src_theblock == <<"t", "h", "e", "b", "l", "o", "c", "k">>

\* request.sources
IngestSources == <<Src_coindesk, Src_theblock>>

\* _now() during the run, in seconds
IngestNow == 2

\* request.since as NewsFetchRequest parses it: absent, with a UTC offset, or
\* without one (a naive datetime)
Sinces == {None, [instant |-> 1, aware |-> TRUE],
           [instant |-> 3, aware |-> TRUE], [instant |-> 1, aware |-> FALSE]}

IngestLinks == {Url_a_slash, Url_A}

Title_bA == <<"b", " ", "A">>

IngestTitles == {Title_Ab, Title_bA, Title_B}

IngestContent == <<Run("x", ContentLimit), Run("y", 1)>>

\* a feed entry together with what the article page gives: link may be
\* empty, the two dates may be absent
EntryChoices ==
  [link : IngestLinks \cup {<<>>}, title : IngestTitles,
   published_at : {NoTime, 1}, article_published_at : {NoTime, 0}]

\* the keys of what items carry, computed once
ItemUrlKeyOf == [u \in {CanonOf[l] : l \in IngestLinks} |-> UrlKey(u)]

ItemContentKeyOf == [t \in IngestTitles |-> ContentKey(IngestContent, t)]

ItemTitleKeyOf == [t \in IngestTitles |-> normalize_title(t)]

\* token_set_ratio of the normalized titles, computed once
NearOf ==
  [a \in IngestTitles, b \in IngestTitles |->
     token_set_ratio(normalize_title(a), normalize_title(b))]

\* near_duplicate(title, existing_titles, threshold=90.0)
near_duplicate(title, existing_titles) ==
  \E i \in 1..Len(existing_titles) :
    NearOf[title, existing_titles[i]].num
      >= 90 * NearOf[title, existing_titles[i]].den

\* a cutoff that also drops what is published exactly at `since`
AtOrBeforeSince(published, snc) ==
  snc # None /\ published <= snc.instant

\* _build_news_item, lines 75 and 88: since and published < since
BeforeSince(published, snc) ==
  snc # None /\ published < snc.instant

\* lines 75 and 88: the feed's and the article's dates carry a UTC offset
\* (parse_datetime, _now); comparing one with a naive `since` raises TypeError
CompareRaises(snc) == snc # None /\ ~snc.aware

\* _build_news_item, line 85
Published(e, t) ==
  IF e.published_at # NoTime THEN e.published_at
  ELSE IF e.article_published_at # NoTime THEN e.article_published_at
  ELSE t

\* _build_news_item, lines 72-89: why None is returned, or "item"
BuildOutcome(e, snc, robots_ok, rate_ok, t) ==
  IF e.link = <<>> THEN "no_link"
  ELSE IF e.published_at # NoTime /\ CompareRaises(snc) THEN "type_error"
  ELSE IF e.published_at # NoTime /\ BeforeSince(e.published_at, snc)
    THEN "old_entry"
  ELSE IF ~robots_ok THEN "robots"
  ELSE IF ~rate_ok THEN "rate_limit"
  ELSE IF CompareRaises(snc) THEN "type_error"
  ELSE IF BeforeSince(Published(e, t), snc) THEN "old"
  ELSE "item"

\* _build_news_item, lines 90-104
BuildItem(source, e, t) ==
  [id |-> deterministic_hash(<<Pack(source), Pack(CanonOf[e.link]),
                               Pack(e.title)>>),
   source |-> source, url |-> CanonOf[e.link], title |-> e.title,
   published_at |-> Published(e, t), fetched_at |-> t,
   content_text |-> IngestContent]

\* fetch_news, line 135
ItemKey(item) ==
  [prefix |-> "news/raw", source |-> item.source,
   day |-> item.fetched_at \div 86400, name |-> item.id]

\* fetch_news, lines 138-142
ItemRecord(item) ==
  [created_at |-> isoformat(item.fetched_at, TRUE), ttl_days |-> 14] @@ item

\* an add that looks the content hash up and not the URL hash
ItemAddContentOnly(uh, ch, item) ==
  LET url_key == ItemUrlKeyOf[item.url]
      content_key == ItemContentKeyOf[item.title]
  IN IF content_key \in DOMAIN ch
       THEN [url_hashes |-> uh, content_hashes |-> ch, accepted |-> FALSE]
       ELSE [url_hashes |-> DictPut(uh, url_key, url_key),
             content_hashes |-> DictPut(ch, content_key, content_key),
             accepted |-> TRUE]

\* DedupeIndex.add(item.url, item.content_text or "", item.title)
ItemAdd(uh, ch, item) ==
  LET url_key == ItemUrlKeyOf[item.url]
      content_key == ItemContentKeyOf[item.title]
  IN IF url_key \in DOMAIN uh \/ content_key \in DOMAIN ch
       THEN [url_hashes |-> uh, content_hashes |-> ch, accepted |-> FALSE]
       ELSE [url_hashes |-> DictPut(uh, url_key, url_key),
             content_hashes |-> DictPut(ch, content_key, content_key),
             accepted |-> TRUE]

\* an index that keeps what the earlier run put in it
KeptIndex(dict) == dict

\* fetch_news, line 111: dedupe = DedupeIndex()
NewIndex(dict) == EmptyDict

\* the (content, title) pair add() looks at
PairOf(item) ==
  <<PPrefix(item.content_text, ContentLimit), ItemTitleKeyOf[item.title]>>

\* the items of the model's entries, computed once
ItemOf ==
  [i \in 1..Len(IngestSources), e \in {x \in EntryChoices : x.link # <<>>} |->
     BuildItem(IngestSources[i], e, IngestNow)]

NewsItem(i, e) == ItemOf[i, e]

Titles(its) == [i \in 1..Len(its) |-> its[i].title]

\* the collected items that came from the i-th source of the request
SameSource(its, i) == SelectSeq(its, LAMBDA x : x.source = IngestSources[i])

\* fetch_news is called for the first time in the process
IngestInit ==
  /\ since \in Sinces
  /\ ipc = "source"
  /\ run = 1
  /\ source_i = 0
  /\ entries_left = 0
  /\ handled = 0
  /\ collected_items = <<>>
  /\ run_urls = {}
  /\ run_pairs = {}
  /\ earlier_urls = {}
  /\ last_entry = NoEntry
  /\ LimiterStart /\ clock = 0 /\ DedupeStart /\ ClusterStart /\ FetchStart
  /\ StorageStart /\ AnalyzeStart /\ SweepStart /\ RecallStart /\ MarketStart /\ CanonStart
  /\ LaterStart

\* lines 115-122: the feed of the next source delivers its entries
IngestSource ==
  /\ ipc = "source"
  /\ source_i < Len(IngestSources)
  /\ source_i' = source_i + 1
  /\ entries_left' \in 0..Min(MaxFeedEntries, MaxHandled - handled)
  /\ ipc' = "entry"
  /\ UNCHANGED <<since, run, handled, collected_items, run_urls, run_pairs,
                 earlier_urls, last_entry, store, dedupeVars>>
  /\ UNCHANGED nonIngestVars

\* lines 123-126: _build_news_item returns None
IngestDrop ==
  /\ ipc = "entry"
  /\ entries_left > 0
  /\ \E e \in EntryChoices, robots_ok \in BOOLEAN, rate_ok \in BOOLEAN :
       /\ BuildOutcome(e, since, robots_ok, rate_ok, IngestNow)
            \notin {"item", "type_error"}
       /\ last_entry' =
            [outcome |-> BuildOutcome(e, since, robots_ok, rate_ok, IngestNow),
             published_at |-> IF BuildOutcome(e, since, robots_ok, rate_ok,
                                              IngestNow) = "old"
                                THEN Published(e, IngestNow)
                                ELSE e.published_at,
             url |-> <<>>, seen |-> FALSE, same_source |-> FALSE]
  /\ entries_left' = entries_left - 1
  /\ handled' = handled + 1
  /\ UNCHANGED <<since, ipc, run, source_i, collected_items, run_urls,
                 run_pairs, earlier_urls, store, dedupeVars>>
  /\ UNCHANGED nonIngestVars

\* _build_news_item, lines 75 and 88: the comparison with `since` raises;
\* fetch_news has no handler, the run ends there
IngestTypeError ==
  /\ ipc = "entry"
  /\ entries_left > 0
  /\ \E e \in EntryChoices :
       /\ BuildOutcome(e, since, TRUE, TRUE, IngestNow) = "type_error"
       /\ last_entry' =
            [outcome |-> "type_error", published_at |-> Published(e, IngestNow),
             url |-> <<>>, seen |-> FALSE, same_source |-> FALSE]
  /\ ipc' = "failed"
  /\ UNCHANGED <<since, run, source_i, entries_left, handled, collected_items,
                 run_urls, run_pairs, earlier_urls, store, dedupeVars>>
  /\ UNCHANGED nonIngestVars

\* _build_news_item, line 84: the article request raises; fetch_news has no
\* handler, the run ends there
IngestAbort ==
  /\ ipc = "entry"
  /\ entries_left > 0
  /\ ipc' = "failed"
  /\ UNCHANGED <<since, run, source_i, entries_left, handled, collected_items,
                 run_urls, run_pairs, earlier_urls, last_entry, store, dedupeVars>>
  /\ UNCHANGED nonIngestVars

\* lines 123-129: dedupe.add rejects the item
IngestDuplicate ==
  /\ ipc = "entry"
  /\ entries_left > 0
  /\ \E e \in EntryChoices :
       /\ BuildOutcome(e, since, TRUE, TRUE, IngestNow) = "item"
       /\ ~ItemAdd(url_hashes, content_hashes,
                   NewsItem(source_i, e)).accepted
       /\ last_entry' =
            [outcome |-> "dedupe", published_at |-> NoTime, url |-> <<>>,
             same_source |-> FALSE,
             seen |-> \/ CanonOf[e.link] \in run_urls
                      \/ PairOf(NewsItem(source_i, e)) \in run_pairs]
  /\ entries_left' = entries_left - 1
  /\ handled' = handled + 1
  /\ UNCHANGED <<since, ipc, run, source_i, collected_items, run_urls,
                 run_pairs, earlier_urls, store, dedupeVars>>
  /\ UNCHANGED nonIngestVars

\* the histories after dedupe.add accepted the item
Accepted(item) ==
  /\ url_hashes' = ItemAdd(url_hashes, content_hashes, item).url_hashes
  /\ content_hashes' = ItemAdd(url_hashes, content_hashes, item).content_hashes
  /\ run_urls' = run_urls \cup {item.url}
  /\ run_pairs' = run_pairs \cup {PairOf(item)}
  /\ entries_left' = entries_left - 1
  /\ handled' = handled + 1
  /\ UNCHANGED <<since, ipc, run, source_i, earlier_urls, accepted, lastAdd>>
  /\ UNCHANGED nonIngestVars

\* lines 123-132: dedupe.add accepts the item, near_duplicate drops it
IngestNearDuplicate ==
  /\ ipc = "entry"
  /\ entries_left > 0
  /\ \E e \in EntryChoices :
       /\ BuildOutcome(e, since, TRUE, TRUE, IngestNow) = "item"
       /\ ItemAdd(url_hashes, content_hashes,
                  NewsItem(source_i, e)).accepted
       /\ near_duplicate(e.title, Titles(collected_items))
       /\ Accepted(NewsItem(source_i, e))
       /\ last_entry' =
            [outcome |-> "near_duplicate", published_at |-> NoTime,
             url |-> <<>>, seen |-> FALSE,
             same_source |->
               near_duplicate(e.title,
                              Titles(SameSource(collected_items, source_i)))]
  /\ UNCHANGED <<collected_items, store>>

\* lines 123-143: the item is collected and stored
IngestKeep ==
  /\ ipc = "entry"
  /\ entries_left > 0
  /\ \E e \in EntryChoices :
       /\ BuildOutcome(e, since, TRUE, TRUE, IngestNow) = "item"
       /\ ItemAdd(url_hashes, content_hashes,
                  NewsItem(source_i, e)).accepted
       /\ ~near_duplicate(e.title, Titles(collected_items))
       /\ Accepted(NewsItem(source_i, e))
       /\ collected_items' =
            Append(collected_items,
                   NewsItem(source_i, e))
       /\ store' =
            put_json(store,
                     ItemKey(NewsItem(source_i, e)),
                     ItemRecord(NewsItem(source_i, e)))
       /\ last_entry' =
            [outcome |-> "kept", published_at |-> NoTime,
             url |-> CanonOf[e.link], seen |-> FALSE, same_source |-> FALSE]

\* line 144: the entries of the source are handled
IngestEndSource ==
  /\ ipc = "entry"
  /\ entries_left = 0
  /\ ipc' = "source"
  /\ UNCHANGED <<since, run, source_i, entries_left, handled, collected_items,
                 run_urls, run_pairs, earlier_urls, last_entry, store, dedupeVars>>
  /\ UNCHANGED nonIngestVars

\* lines 146-147
IngestReturn ==
  /\ ipc = "source"
  /\ source_i = Len(IngestSources)
  /\ ipc' = "done"
  /\ UNCHANGED <<since, run, source_i, entries_left, handled, collected_items,
                 run_urls, run_pairs, earlier_urls, last_entry, store, dedupeVars>>
  /\ UNCHANGED nonIngestVars

\* lines 108-112: fetch_news is called again, after a run that returned or
\* one that an exception ended
IngestAgain ==
  /\ ipc \in {"done", "failed"}
  /\ run < MaxRuns
  /\ run' = run + 1
  /\ url_hashes' = NewIndex(url_hashes)
  /\ content_hashes' = NewIndex(content_hashes)
  /\ collected_items' = <<>>
  /\ run_urls' = {}
  /\ run_pairs' = {}
  /\ earlier_urls' = earlier_urls \cup run_urls
  /\ last_entry' = [NoEntry EXCEPT !.outcome = ipc]
  /\ source_i' = 0
  /\ entries_left' = 0
  /\ ipc' = "source"
  /\ UNCHANGED <<since, handled, store, accepted, lastAdd>>
  /\ UNCHANGED nonIngestVars

IngestNext ==
  \/ IngestSource
  \/ IngestDrop
  \/ IngestTypeError
  \/ IngestAbort
  \/ IngestDuplicate
  \/ IngestNearDuplicate
  \/ IngestKeep
  \/ IngestEndSource
  \/ IngestReturn
  \/ IngestAgain

SpecIngest == IngestInit /\ [][IngestNext]_vars

(***************************************************************************)
(* MARKET SNAPSHOTS  (src/api/market_fetch.py)                             *)
(***************************************************************************)
SecondsPerHour == 3600

MarketExchanges == {<<>>, <<"binance">>, <<"bybit", "binance">>}

MarketSymbols == {<<>>, <<"BTCUSDT">>, <<"BTCUSDT", "ETHUSDT">>}

\* the instants at which a fetcher builds its snapshot
MarketInstants == {0, SecondsPerHour}

\* process_request, lines 191-192: the pairs in the order of the two loops
RECURSIVE Pairs(_, _, _, _)
Pairs(exchanges, symbols, i, j) ==
  IF i > Len(exchanges) THEN <<>>
  ELSE IF j > Len(symbols) THEN Pairs(exchanges, symbols, i + 1, 1)
  ELSE <<[exchange |-> exchanges[i], symbol |-> symbols[j]]>>
         \o Pairs(exchanges, symbols, i, j + 1)

\* the MarketSnapshot a fetcher returns (the candles are left out)
MarketSnapshot(pair, t) ==
  [source |-> pair.exchange, symbol |-> pair.symbol, fetched_at |-> t]

\* _store_snapshot, lines 28-29
SnapshotKey(exchange, symbol, snapshot) ==
  [prefix |-> "market", exchange |-> exchange, symbol |-> symbol,
   hour |-> snapshot.fetched_at \div SecondsPerHour]

\* a snapshot stored as it is, without the two retention fields
BareRecord(snapshot) == snapshot

\* _store_snapshot, lines 30-36
SnapshotRecord(snapshot) ==
  [created_at |-> isoformat(snapshot.fetched_at, TRUE), ttl_days |-> 14]
    @@ snapshot

\* process_request is called with a payload that MarketFetchRequest accepts
MarketInit ==
  /\ \E exchanges \in MarketExchanges, symbols \in MarketSymbols :
       pairs_left = Pairs(exchanges, symbols, 1, 1)
  /\ mpc = "fetch"
  /\ StorageStart
  /\ LimiterStart /\ clock = 0 /\ DedupeStart /\ ClusterStart /\ FetchStart
  /\ AnalyzeStart /\ SweepStart /\ IngestStart /\ RecallStart /\ CanonStart
  /\ LaterStart

\* lines 193-196, and _store_snapshot when put_json returns
MarketStore ==
  /\ mpc = "fetch"
  /\ pairs_left # <<>>
  /\ \E t \in MarketInstants :
       LET pair == Head(pairs_left)
           snapshot == MarketSnapshot(pair, t)
       IN store' = put_json(store,
                            SnapshotKey(pair.exchange, pair.symbol, snapshot),
                            SnapshotRecord(snapshot))
  /\ pairs_left' = Tail(pairs_left)
  /\ UNCHANGED mpc
  /\ UNCHANGED nonMarketVars

\* _store_snapshot, lines 37-46: put_json raises, which is only logged
MarketStoreFails ==
  /\ mpc = "fetch"
  /\ pairs_left # <<>>
  /\ pairs_left' = Tail(pairs_left)
  /\ UNCHANGED <<mpc, store>>
  /\ UNCHANGED nonMarketVars

\* line 194: the fetcher raises, and so does process_request
MarketFetchRaises ==
  /\ mpc = "fetch"
  /\ pairs_left # <<>>
  /\ mpc' = "failed"
  /\ UNCHANGED <<pairs_left, store>>
  /\ UNCHANGED nonMarketVars

\* lines 197-198
MarketReturn ==
  /\ mpc = "fetch"
  /\ pairs_left = <<>>
  /\ mpc' = "done"
  /\ UNCHANGED <<pairs_left, store>>
  /\ UNCHANGED nonMarketVars

MarketNext ==
  \/ MarketStore
  \/ MarketStoreFails
  \/ MarketFetchRaises
  \/ MarketReturn

(***************************************************************************)
(* THE THREE WRITERS                                                       *)
(***************************************************************************)
WritersInit == IngestInit \/ AnalyzeInit \/ MarketInit

WritersNext == IngestNext \/ AnalyzeNext \/ MarketNext

SpecWriters == WritersInit /\ [][WritersNext]_vars

\* an ISO-8601 timestamp as isoformat writes it
IsTimestamp(value) ==
  /\ DOMAIN value = {"instant", "offset"}
  /\ value.instant \in Int
  /\ value.offset \in {"", "+00:00"}

WriterPrefixes == {"news/raw", "news/clustered", "market"}

\* C17: every record that ingestion, clustering and market fetch have written
\* to storage, under news/raw, news/clustered and market, has a created_at
\* timestamp and an integer ttl_days.
C17_RecordsCarryRetentionFields ==
  \A key \in DOMAIN store :
    /\ key.prefix \in WriterPrefixes
    /\ "created_at" \in DOMAIN store[key]
    /\ "ttl_days" \in DOMAIN store[key]
    /\ IsTimestamp(store[key].created_at)
    /\ store[key].ttl_days \in Int

\* market fetch has returned after storing the snapshots of two pairs
C17_Witness ==
  /\ mpc = "done"
  /\ Cardinality({key \in DOMAIN store : key.prefix = "market"}) >= 2

\* ingestion has stored an accepted item
C17_WitnessIngest ==
  \E key \in DOMAIN store : key.prefix = "news/raw"

\* clustering has stored a cluster
C17_WitnessAnalyze ==
  \E key \in DOMAIN store : key.prefix = "news/clustered"

(***************************************************************************)
(* THE since CUTOFF                                                        *)
(***************************************************************************)
\* the outcomes of an entry that the cutoff dropped
CutoffOutcomes == {"old_entry", "old"}

\* C18: when a since cutoff is given, no item that fetch_news has collected
\* for its response was published before since, and the cutoff drops only
\* what was published before since, so that an item published exactly at
\* since is kept.
C18_SinceCutoff ==
  /\ since # None =>
       \A i \in 1..Len(collected_items) :
         /\ since.aware
         /\ collected_items[i].published_at >= since.instant
  /\ last_entry.outcome \in CutoffOutcomes =>
       /\ since # None
       /\ last_entry.published_at < since.instant

\* a run with a cutoff has returned an item published exactly at since
C18_Witness ==
  /\ ipc = "done"
  /\ since # None
  /\ \E i \in 1..Len(collected_items) :
       collected_items[i].published_at = since.instant

\* a run with a naive since has ended in a TypeError
C18_WitnessNaive ==
  /\ ipc = "failed"
  /\ last_entry.outcome = "type_error"

(***************************************************************************)
(* ONE RUN AFTER ANOTHER                                                   *)
(***************************************************************************)
\* a cluster list carried over from the call before
KeptClusters(cls) == cls

\* cluster_news, line 106: clusters = []
FreshClusters(cls) == <<>>

\* cluster_news is called again with the arguments of the call that returned
ClusterCall ==
  /\ cpc = "done"
  /\ ~recalled
  /\ recalled' = TRUE
  /\ earlier' = returned
  /\ clusters' = FreshClusters(clusters)
  /\ sorted_items' = <<>>
  /\ cursor' = 0
  /\ placed' = <<>>
  /\ returned' = <<>>
  /\ cpc' = "sort"
  /\ UNCHANGED <<items, window_minutes, similarity_threshold>>
  /\ UNCHANGED <<limiterVars, dedupeVars, fetchVars, storageVars, analyzeVars,
                 sweepVars, ingestVars, marketVars, canonVars, laterVars>>

MaxRunItems == 2

\* cluster_news is called for the first of two times
RecallInit ==
  /\ \E n \in 0..MaxRunItems : items \in ItemLists(n)
  /\ window_minutes \in Windows
  /\ similarity_threshold \in Thresholds
  /\ sorted_items = <<>>
  /\ clusters = <<>>
  /\ cursor = 0
  /\ cpc = "sort"
  /\ placed = <<>>
  /\ returned = <<>>
  /\ LimiterStart /\ clock = 0 /\ DedupeStart /\ FetchStart /\ ServiceStart

RunsInit == IngestInit \/ RecallInit

RunsNext == IngestNext \/ ClusterNext \/ ClusterCall

SpecRuns == RunsInit /\ [][RunsNext]_vars

\* a fetch_news call is at its start
RunStarts == ipc = "source" /\ source_i = 0

\* C19: the dedupe index and the open clusters belong to one run. A fetch_news
\* call starts with an empty index and nothing collected, so dedupe rejects an
\* item only for a URL or a (content, title) pair accepted earlier in the same
\* run, whether the run before returned or was ended by an exception; a
\* cluster_news call starts with no open cluster, and the second of two calls
\* with the same arguments returns what the first returned.
C19_StateScopedToRun ==
  /\ RunStarts =>
       /\ url_hashes = EmptyDict
       /\ content_hashes = EmptyDict
       /\ collected_items = <<>>
  /\ last_entry.outcome = "dedupe" => last_entry.seen
  /\ cpc = "sort" => clusters = <<>>
  /\ (cpc = "done" /\ recalled) => returned = earlier

\* in a later run, an item is accepted whose URL an earlier run accepted
C19_Witness ==
  /\ run > 1
  /\ last_entry.outcome = "kept"
  /\ last_entry.url \in earlier_urls

\* a second cluster_news call has returned clusters, as the first did
C19_WitnessClusters ==
  /\ cpc = "done"
  /\ recalled
  /\ Len(returned) >= 2

(***************************************************************************)
(* CANONICAL URLS, APPLIED TWICE  (src/src/normalization.py)               *)
(***************************************************************************)
MaxUrlLen == 3

UrlAlphabet == {"/", ";", "A", "?"}

\* nothing, or a scheme and a host in mixed case
Url_head == <<"h", "t", "t", "p", ":", "/", "/", "E", ".", "x">>

UrlHeads == {<<>>, Url_head}

UrlTails == UNION { [1..n -> UrlAlphabet] : n \in 0..MaxUrlLen }

CanonInputs == { head \o tail : head \in UrlHeads, tail \in UrlTails }

nonCanonVars == <<limiterVars, dedupeVars, clusterVars, fetchVars, storageVars,
                  analyzeVars, sweepVars, ingestVars, recallVars, marketVars,
                  laterVars>>

\* a URL is about to be canonicalized
CanonInit ==
  /\ raw_url \in CanonInputs
  /\ upc = 0
  /\ canon_once = <<>>
  /\ canon_twice = <<>>
  /\ LimiterStart /\ clock = 0 /\ DedupeStart /\ ClusterStart /\ FetchStart
  /\ StorageStart /\ AnalyzeStart /\ SweepStart /\ IngestStart
  /\ RecallStart /\ MarketStart /\ LaterStart

\* canonicalize_url(url)
Canonicalize ==
  /\ upc = 0
  /\ canon_once' = canonicalize_url(raw_url)
  /\ upc' = 1
  /\ UNCHANGED <<raw_url, canon_twice>>
  /\ UNCHANGED nonCanonVars

\* canonicalize_url of what canonicalize_url returned
CanonicalizeAgain ==
  /\ upc = 1
  /\ canon_twice' = canonicalize_url(canon_once)
  /\ upc' = 2
  /\ UNCHANGED <<raw_url, canon_once>>
  /\ UNCHANGED nonCanonVars

CanonNext == Canonicalize \/ CanonicalizeAgain

SpecCanon == CanonInit /\ [][CanonNext]_vars

\* the URL names a host, and its path holds no ";"
Plain(url) ==
  /\ urlparse(url).netloc # <<>>
  /\ urlparse(url).params = <<>>
  /\ \A i \in 1..Len(urlparse(url).path) : urlparse(url).path[i] # ";"

\* C20: canonicalize_url is idempotent: canonicalizing a canonical URL returns
\* it unchanged, for every URL.
C20_Idempotent == upc = 2 => canon_twice = canon_once

\* C20, for the URLs that name a host and have no ";" in the path: the second
\* application changes nothing, the host of the result is the host in lower
\* case, and the path of the result is the path without its trailing
\* slashes, in the case it had.
C20_PlainUrlsStable ==
  Plain(raw_url) =>
    /\ upc = 2 => canon_twice = canon_once
    /\ upc >= 1 =>
         /\ urlparse(canon_once).netloc = Lower(urlparse(raw_url).netloc)
         /\ urlparse(canon_once).path = CanonicalPath(urlparse(raw_url).path)

\* a URL with a host in upper case and a path in upper case was canonicalized
\* twice
C20_PlainWitness ==
  /\ upc = 2
  /\ Plain(raw_url)
  /\ urlparse(raw_url).netloc # Lower(urlparse(raw_url).netloc)
  /\ urlparse(canon_once).path = <<"/", "A">>

(***************************************************************************)
(* NORMALIZED TITLES, NORMALIZED AGAIN  (src/src/normalization.py)         *)
(***************************************************************************)
MaxTitleLen == 5

TitleAlphabet == {"<", ">", " ", "\t", "a"}

TitleInputs == UNION { [1..n -> TitleAlphabet] : n \in 0..MaxTitleLen }

nonTitleVars == <<limiterVars, dedupeVars, clusterVars, fetchVars, storageVars,
                  analyzeVars, sweepVars, ingestVars, recallVars, marketVars,
                  canonVars, schemaVars, largeVars>>

\* a title is about to be normalized
TitleInit ==
  /\ raw_title \in TitleInputs
  /\ tpc = 0
  /\ title_once = <<>>
  /\ title_twice = <<>>
  /\ LimiterStart /\ clock = 0 /\ DedupeStart /\ ClusterStart /\ FetchStart
  /\ StorageStart /\ AnalyzeStart /\ SweepStart /\ IngestStart
  /\ RecallStart /\ MarketStart /\ CanonStart /\ SchemaStart /\ LargeStart

\* normalize_title(value)
Normalize ==
  /\ tpc = 0
  /\ title_once' = normalize_title(raw_title)
  /\ tpc' = 1
  /\ UNCHANGED <<raw_title, title_twice>>
  /\ UNCHANGED nonTitleVars

\* normalize_title of what normalize_title returned
NormalizeAgain ==
  /\ tpc = 1
  /\ title_twice' = normalize_title(title_once)
  /\ tpc' = 2
  /\ UNCHANGED <<raw_title, title_once>>
  /\ UNCHANGED nonTitleVars

TitleNext == Normalize \/ NormalizeAgain

SpecTitle == TitleInit /\ [][TitleNext]_vars

\* C21: normalize_title is idempotent: normalizing a normalized title returns
\* it unchanged, for every title.
C21_Idempotent == tpc = 2 => title_twice = title_once

\* a title that loses a tag and the whitespace after it was normalized twice
C21_Witness ==
  /\ tpc = 2
  /\ raw_title = <<"<", "a", ">", "\t", "a">>
  /\ title_once = <<"a">>

(***************************************************************************)
(* THE LIMITER UNDER A FAIR SCHEDULER                                      *)
(***************************************************************************)
\* the next step of the allow() call that thread t is in
Step(t) ==
  \/ Acquire(t)
  \/ Get(t)
  \/ Create(t)
  \/ ConsumeRefill(t)
  \/ ConsumeTake(t)
  \/ Release(t)

\* every thread that can take a step is scheduled in the end; nothing is
\* assumed of the clock, which may stand still
SpecLimiterFair ==
  LimiterInit /\ [][LimiterNext]_vars /\ \A t \in Threads : WF_vars(Step(t))

\* no allow() call is running
AllIdle == \A t \in Threads : pc[t] = "idle"

\* C22: every allow() call, whatever the other callers do, returns, and what
\* it returns is true or false; after consume() has decided, granted or
\* denied, the call only releases the lock and returns, it does not wait
\* for tokens; and once every call has returned the lock is free.
C22_AllowReturns ==
  /\ [](\A t \in Threads : ret[t] \in BOOLEAN)
  /\ [](AllIdle => lock = NoThread)
  /\ [](\A t \in Threads : pc[t] = "idle" => lock # t)
  /\ [][\A t \in Threads :
          (pc[t] = "release" /\ pc'[t] # "release") => pc'[t] = "idle"]_vars
  /\ \A t \in Threads : (pc[t] # "idle") ~> (pc[t] = "idle")

\* a denied call has returned, and no call is running
C22_Witness ==
  /\ AllIdle
  /\ lock = NoThread
  /\ last.key # ""
  /\ ~last.ok
  /\ finished[last.key] > 0

(***************************************************************************)
(* THE SCHEMA OF A CLUSTER  (src/src/confirm.py, ClusterCandidate)         *)
(***************************************************************************)
\* floats that are quotients of naturals, kept exact
FracAdd(x, y) == Frac(x.num * y.den + y.num * x.den, x.den * y.den)

FracMul(x, y) == Frac(x.num * y.num, x.den * y.den)

RECURSIVE FracSum(_)
FracSum(fs) ==
  IF fs = <<>> THEN Frac(0, 1) ELSE FracAdd(fs[1], FracSum(Tail(fs)))

\* round(x * 100) for a float x >= 0: the nearest integer, a tie going to
\* the even one
RoundHundredths(x) ==
  LET n == x.num * 100
      q == n \div x.den
      r == n % x.den
  IN IF 2 * r < x.den THEN q
     ELSE IF 2 * r > x.den THEN q + 1
     ELSE IF q % 2 = 0 THEN q ELSE q + 1

\* lines 14-16
SIMILARITY_WEIGHT == Frac(6, 10)

SOURCE_WEIGHT == Frac(3, 10)

FRESHNESS_WEIGHT == Frac(1, 10)

\* lines 18-24
SOURCE_SCORES ==
  [s \in {"coindesk", "theblock", "blockworks", "cryptopanic", "messari"} |->
     IF s = "cryptopanic" THEN Frac(2, 1) ELSE Frac(1, 1)]

\* SOURCE_SCORES.get(source, 0.5)
SourceWeight(source) ==
  IF source \in DOMAIN SOURCE_SCORES THEN SOURCE_SCORES[source]
  ELSE Frac(1, 2)

\* ClusterCandidate.similarity_score
similarity_score(cluster) ==
  IF cluster.similarities = <<>> THEN Frac(0, 1)
  ELSE FracMul(FracSum(cluster.similarities),
               Frac(1, Len(cluster.similarities)))

\* ClusterCandidate.source_score
source_score(cluster) ==
  FracSum([i \in 1..Len(cluster.items) |->
             SourceWeight(cluster.items[i].source)])

\* ClusterCandidate.freshness_score, now being datetime.now(timezone.utc):
\* max(0.0, 1.0 - age_minutes / 1440.0) * 100, the age in seconds here
freshness_score(cluster, now) ==
  Frac(100 * Max(0, SecondsPerDay - (now - first_seen(cluster))),
       SecondsPerDay)

\* a score whose similarity and source weights are exchanged
ScoreWeightsSwapped(cluster, now) ==
  RoundHundredths(
    FracAdd(FracMul(similarity_score(cluster), SOURCE_WEIGHT),
            FracAdd(FracMul(FracMul(source_score(cluster), Frac(10, 1)),
                            SIMILARITY_WEIGHT),
                    FracMul(freshness_score(cluster, now),
                            FRESHNESS_WEIGHT))))

\* to_schema, lines 83-86 and 93: round(score, 2), in hundredths
Score(cluster, now) ==
  RoundHundredths(
    FracAdd(FracMul(similarity_score(cluster), SIMILARITY_WEIGHT),
            FracAdd(FracMul(FracMul(source_score(cluster), Frac(10, 1)),
                            SOURCE_WEIGHT),
                    FracMul(freshness_score(cluster, now),
                            FRESHNESS_WEIGHT))))

\* \w of a regular expression, for the characters of the model
IsWordChar(c) == IsAsciiAlpha(c) \/ IsDigit(c) \/ c = "_"

\* lines 26-34: a label and the words its pattern stands for, between two
\* \b and compared without regard to case
ENTITY_PATTERNS ==
  << [label |-> "BTC", words |-> {<<"b", "t", "c">>}],
     [label |-> "ETH", words |-> {<<"e", "t", "h">>}],
     [label |-> "SOL", words |-> {<<"s", "o", "l">>}],
     [label |-> "ETF", words |-> {<<"e", "t", "f">>}],
     [label |-> "SEC", words |-> {<<"s", "e", "c">>}],
     [label |-> "HACK", words |-> {<<"h", "a", "c", "k">>, <<"h", "a", "c", "k", "e", "d">>, <<"h", "a", "c", "k", "i", "n", "g">>}],
     [label |-> "FUNDING", words |-> {<<"f", "u", "n", "d", "i", "n", "g", " ", "r", "a", "t", "e">>}] >>

\* the word stands at position i of the text, between two word boundaries
WordAt(text, word, i) ==
  /\ i + Len(word) - 1 <= Len(text)
  /\ Lower(SubSeq(text, i, i + Len(word) - 1)) = word
  /\ (i = 1 \/ ~IsWordChar(text[i - 1]))
  /\ (i + Len(word) > Len(text) \/ ~IsWordChar(text[i + Len(word)]))

\* pattern.search(text): the position of the leftmost match, 0 for None
Search(pattern, text) ==
  LET M == {i \in 1..Len(text) : \E w \in pattern.words : WordAt(text, w, i)}
  IN IF M = {} THEN 0 ELSE CHOOSE i \in M : \A j \in M : i <= j

\* line 76: " ".join(item.title for item in self.items)
combined_text(cluster) ==
  Join([i \in 1..Len(cluster.items) |-> cluster.items[i].title], <<" ">>)

\* lines 77-79: the labels passed so far, then the rest of the vocabulary
RECURSIVE EntitiesFrom(_, _, _)
EntitiesFrom(k, text, entities) ==
  IF k > Len(ENTITY_PATTERNS) THEN entities
  ELSE EntitiesFrom(k + 1, text,
         IF /\ Search(ENTITY_PATTERNS[k], text) # 0
            /\ \A j \in 1..Len(entities) :
                 entities[j] # ENTITY_PATTERNS[k].label
           THEN Append(entities, ENTITY_PATTERNS[k].label)
           ELSE entities)

\* ClusterCandidate.detect_entities
detect_entities(cluster) == EntitiesFrom(1, combined_text(cluster), <<>>)

\* the keywords of lines 127-128
Str_hack == <<"h", "a", "c", "k">>

Str_lawsuit == <<"l", "a", "w", "s", "u", "i", "t">>

Str_layoff == <<"l", "a", "y", "o", "f", "f">>

Str_bankrupt == <<"b", "a", "n", "k", "r", "u", "p", "t">>

Str_launch == <<"l", "a", "u", "n", "c", "h">>

Str_growth == <<"g", "r", "o", "w", "t", "h">>

Str_profit == <<"p", "r", "o", "f", "i", "t">>

Str_surge == <<"s", "u", "r", "g", "e">>

\* lines 127-128
negative_keywords == {Str_hack, Str_lawsuit, Str_layoff, Str_bankrupt}

positive_keywords == {Str_launch, Str_growth, Str_profit, Str_surge}

\* word in title
Contains(title, word) ==
  \E i \in 1..Len(title) :
    /\ i + Len(word) - 1 <= Len(title)
    /\ SubSeq(title, i, i + Len(word) - 1) = word

\* lines 130-135: what one title adds to the score
TitleSentiment(title) ==
  (IF \E w \in positive_keywords : Contains(Lower(title), w) THEN 1 ELSE 0)
  - (IF \E w \in negative_keywords : Contains(Lower(title), w) THEN 1 ELSE 0)

RECURSIVE SentimentScore(_)
SentimentScore(its) ==
  IF its = <<>> THEN 0
  ELSE TitleSentiment(its[1].title) + SentimentScore(Tail(its))

\* lines 136-140
HintOf(score) ==
  IF score > 1 THEN "positive"
  ELSE IF score < -1 THEN "negative"
  ELSE "None"

\* _sentiment_hint(items)
sentiment_hint(its) == HintOf(SentimentScore(its))

\* to_schema with the clock read at now: the whole NewsCluster
ScoredCluster(cluster, now) ==
  [canonical_title |-> cluster.canonical_title,
   score |-> Score(cluster, now),
   source_count |-> SourceCount(cluster),
   entities |-> detect_entities(cluster),
   first_seen |-> first_seen(cluster),
   last_seen |-> last_seen(cluster),
   sentiment_hint |-> sentiment_hint(cluster.items),
   links |-> [i \in 1..Len(cluster.items) |-> cluster.items[i].url]]

\* the inputs: titles, sources, publication times and clock readings
Title_eth_BTC == <<"e", "t", "h", " ", "B", "T", "C">>

Title_profit_surge == <<"p", "r", "o", "f", "i", "t", " ", "s", "u", "r", "g", "e">>

Title_hacked == <<"h", "a", "c", "k", "e", "d">>

Title_BTC_launch == <<"B", "T", "C", " ", "l", "a", "u", "n", "c", "h">>

SchemaTitles ==
  {Title_eth_BTC, Title_profit_surge, Title_hacked, Title_BTC_launch}

SchemaSources == {"coindesk", "cryptopanic", "other"}

SchemaTimes == {0, 7200}

SchemaNows == {0, 3600, 86400, 90000}

MaxMembers == 2

\* the similarities of these titles, computed once
SchemaSimOf ==
  [a \in SchemaTitles, b \in SchemaTitles |->
     token_set_ratio(normalize_title(a), normalize_title(b))]

\* cluster_news, lines 107-121, for a cluster every item is attached to:
\* the opening item with 100.0, the others with their similarity to the
\* canonical title of the moment
RECURSIVE AttachAll(_, _)
AttachAll(cluster, its) ==
  IF its = <<>> THEN cluster
  ELSE AttachAll(ClusterAdd(cluster, its[1],
                            SchemaSimOf[its[1].title,
                                        cluster.canonical_title]),
                 Tail(its))

CandidateOf(its) ==
  AttachAll(ClusterAdd(ClusterCandidate(its[1].title), its[1],
                       Frac(100, 1)),
            Tail(its))

\* the member lists: sorted by published_at, the i-th member has the URL i
MemberLists(n) ==
  { [i \in 1..n |-> [title |-> f[i].title, source |-> f[i].source,
                     published_at |-> f[i].published_at, url |-> i]] :
      f \in { g \in [1..n -> [title : SchemaTitles, source : SchemaSources,
                              published_at : SchemaTimes]] :
                \A i \in 1..(n - 1) :
                  g[i].published_at <= g[i + 1].published_at } }

nonSchemaVars == <<limiterVars, dedupeVars, clusterVars, fetchVars,
                   storageVars, analyzeVars, sweepVars, ingestVars,
                   recallVars, marketVars, canonVars, titleVars, largeVars>>

\* cluster_news has built a cluster and is about to return its schema
SchemaInit ==
  /\ \E n \in 1..MaxMembers : \E its \in MemberLists(n) :
       candidate = CandidateOf(its)
  /\ eval_now = 0
  /\ kpc = "built"
  /\ schema = <<>>
  /\ LimiterStart /\ clock = 0 /\ DedupeStart /\ ClusterStart /\ FetchStart
  /\ StorageStart /\ AnalyzeStart /\ SweepStart /\ IngestStart
  /\ RecallStart /\ MarketStart /\ CanonStart /\ TitleStart /\ LargeStart

\* line 123: cluster.to_schema(origin), the clock reading some time
ToSchema ==
  /\ kpc = "built"
  /\ \E now \in SchemaNows :
       /\ eval_now' = now
       /\ schema' = ScoredCluster(candidate, now)
  /\ kpc' = "done"
  /\ UNCHANGED <<candidate, nonSchemaVars>>

\* the same cluster is evaluated at another time
SchemaAgain ==
  /\ kpc = "done"
  /\ kpc' = "built"
  /\ UNCHANGED <<candidate, eval_now, schema, nonSchemaVars>>

SchemaNext == ToSchema \/ SchemaAgain

SpecSchema == SchemaInit /\ [][SchemaNext]_vars

\* the score of the claim, before rounding: the average recorded similarity
\* times 0.6, ten times the summed source weights times 0.3, the freshness
\* at the evaluation time times 0.1
WeightedSum(cluster, now) ==
  LET similarityScore ==
        Frac(FracSum(cluster.similarities).num,
             FracSum(cluster.similarities).den * Len(cluster.similarities))
      sourceScore ==
        FracSum([i \in 1..Len(cluster.items) |->
                   IF cluster.items[i].source \in DOMAIN SOURCE_SCORES
                     THEN SOURCE_SCORES[cluster.items[i].source]
                     ELSE Frac(1, 2)])
  IN FracAdd(Frac(similarityScore.num * 6, similarityScore.den * 10),
             FracAdd(Frac(sourceScore.num * 10 * 3, sourceScore.den * 10),
                     Frac(freshness_score(cluster, now).num,
                          freshness_score(cluster, now).den * 10)))

\* C23: the score of every returned cluster is
\* similarityScore*0.6 + (sourceScore*10)*0.3 + freshnessScore*0.1 rounded to
\* two decimals: it is a whole number of hundredths no further than half a
\* hundredth from that sum, the freshness being the one at evaluation time
C23_ScoreIsRoundedWeightedSum ==
  kpc = "done" =>
    LET x == WeightedSum(candidate, eval_now)
    IN 2 * Abs(100 * x.num - schema.score * x.den) <= x.den

\* a cluster of two members, one from an unknown source, the second with a
\* similarity below 100, evaluated an hour after it was first seen: the
\* weighted sum is not a whole number of hundredths
C23_Witness ==
  /\ kpc = "done"
  /\ Len(candidate.items) = 2
  /\ candidate.items[1].source = "other"
  /\ candidate.items[2].source = "cryptopanic"
  /\ FracLess(candidate.similarities[2], Frac(100, 1))
  /\ first_seen(candidate) = 0
  /\ eval_now = 3600
  /\ WeightedSum(candidate, eval_now) # Frac(schema.score, 100)

\* C24: the freshness of every cluster at every evaluation time lies between
\* 0 and 100: never negative, 0 when first_seen is 24 hours or more before
\* now, and never above 100, also when first_seen is later than now
C24_FreshnessWithinBounds ==
  kpc = "done" =>
    LET f == freshness_score(candidate, eval_now)
    IN /\ ~FracLess(f, Frac(0, 1))
       /\ (eval_now - first_seen(candidate) >= SecondsPerDay
             => f = Frac(0, 1))
       /\ ~FracLess(Frac(100, 1), f)

\* what holds of the freshness: it is never negative, it is 0 from 24 hours
\* on, and it is at most 100 when first_seen is not later than now
C24_FreshnessOfPastClusters ==
  kpc = "done" =>
    LET f == freshness_score(candidate, eval_now)
    IN /\ ~FracLess(f, Frac(0, 1))
       /\ (eval_now - first_seen(candidate) >= SecondsPerDay
             => f = Frac(0, 1))
       /\ (first_seen(candidate) <= eval_now => ~FracLess(Frac(100, 1), f))

\* a cluster evaluated when its first report is 25 hours old
C24_OldWitness ==
  /\ kpc = "done"
  /\ first_seen(candidate) = 0
  /\ eval_now = 90000
  /\ freshness_score(candidate, eval_now) = Frac(0, 1)

(***************************************************************************)
(* THE REPRESENTATIVE TITLE OF A CLUSTER  (confirm.py, lines 43-47)        *)
(***************************************************************************)
\* the similarity exceeds every similarity recorded in the cluster
ExceedsAll(similarity, cluster) ==
  \A k \in 1..Len(cluster.similarities) :
    FracLess(cluster.similarities[k], similarity)

\* the step attached an item to the j-th cluster
Attached(j) ==
  /\ j \in 1..Len(clusters')
  /\ Len(clusters'[j].items) = Len(clusters[j].items) + 1

\* C25: attaching an item to a cluster changes the canonical title, and then
\* to the title of the item, only if the similarity of the item is strictly
\* greater than every similarity recorded in the cluster before; otherwise
\* the canonical title stays as it was
C25_TitleChangesOnlyOnStrictlyBetterMatch ==
  [][\A j \in 1..Len(clusters) :
       Attached(j) =>
         LET n == Len(clusters'[j].items)
             item == clusters'[j].items[n]
             similarity == clusters'[j].similarities[n]
         IN /\ clusters'[j].canonical_title # clusters[j].canonical_title
                 => /\ clusters'[j].canonical_title = item.title
                    /\ ExceedsAll(similarity, clusters[j])
            /\ ~ExceedsAll(similarity, clusters[j])
                 => clusters'[j].canonical_title = clusters[j].canonical_title
    ]_vars

\* an item with another title was attached with the similarity 100.0 the
\* opening item has: the cluster kept the title it was opened with
C25_Witness ==
  \E j \in 1..Len(clusters) :
    /\ Len(clusters[j].items) >= 2
    /\ clusters[j].similarities[2] = Frac(100, 1)
    /\ clusters[j].items[2].title # clusters[j].items[1].title
    /\ clusters[j].canonical_title = clusters[j].items[1].title

(***************************************************************************)
(* ENTITIES AND SENTIMENT OF A CLUSTER  (confirm.py, lines 74-80, 126-140) *)
(***************************************************************************)
\* the vocabulary labels whose pattern matches the text
MatchedLabels(text) ==
  {ENTITY_PATTERNS[k].label :
     k \in {i \in 1..Len(ENTITY_PATTERNS) :
              Search(ENTITY_PATTERNS[i], text) # 0}}

\* the position in the text of the first match of the label's pattern
FirstMatchOf(label, text) ==
  Search(ENTITY_PATTERNS[CHOOSE k \in 1..Len(ENTITY_PATTERNS) :
                           ENTITY_PATTERNS[k].label = label], text)

\* the place of the label in the vocabulary
VocabularyIndex(label) ==
  CHOOSE k \in 1..Len(ENTITY_PATTERNS) : ENTITY_PATTERNS[k].label = label

\* the list holds exactly the labels of the set, each once
ListsOnce(list, set) ==
  /\ {list[i] : i \in 1..Len(list)} = set
  /\ Len(list) = Cardinality(set)

\* C26: the entities of a cluster are exactly the vocabulary labels whose
\* pattern matches the joined member titles, each once, ordered by first
\* match: a label whose first match stands earlier in the text comes earlier
C26_EntitiesInFirstMatchOrder ==
  kpc = "done" =>
    LET text == combined_text(candidate)
    IN /\ ListsOnce(schema.entities, MatchedLabels(text))
       /\ \A i, j \in 1..Len(schema.entities) :
            i < j => FirstMatchOf(schema.entities[i], text)
                       < FirstMatchOf(schema.entities[j], text)

\* what holds of the entities: exactly the matching labels, each once, in
\* the order of the vocabulary
C26_EntitiesInVocabularyOrder ==
  kpc = "done" =>
    LET text == combined_text(candidate)
    IN /\ ListsOnce(schema.entities, MatchedLabels(text))
       /\ \A i, j \in 1..Len(schema.entities) :
            i < j => VocabularyIndex(schema.entities[i])
                       < VocabularyIndex(schema.entities[j])

\* the titles name ETH before BTC and the entities list BTC before ETH
C26_VocabularyOrderWitness ==
  /\ kpc = "done"
  /\ candidate.items[1].title = Title_eth_BTC
  /\ schema.entities[1] = "BTC"
  /\ schema.entities[2] = "ETH"

\* the keywords of the set that occur in the title
KeywordMatches(title, keywords) ==
  Cardinality({w \in keywords : Contains(Lower(title), w)})

\* a counter incremented for each positive-keyword match and decremented
\* for each negative-keyword match over the titles
RECURSIVE MatchCounter(_)
MatchCounter(its) ==
  IF its = <<>> THEN 0
  ELSE KeywordMatches(its[1].title, positive_keywords)
       - KeywordMatches(its[1].title, negative_keywords)
       + MatchCounter(Tail(its))

\* C27: the sentiment hint follows a counter incremented for each
\* positive-keyword match and decremented for each negative-keyword match
\* over all member titles: "positive" exactly when the counter is above 1,
\* "negative" exactly when it is below -1, absent otherwise
C27_HintFollowsMatchCounter ==
  kpc = "done" =>
    /\ schema.sentiment_hint = "positive" <=> MatchCounter(candidate.items) > 1
    /\ schema.sentiment_hint = "negative" <=> MatchCounter(candidate.items) < -1
    /\ schema.sentiment_hint = "None"
         <=> MatchCounter(candidate.items) \in -1..1

\* what holds of the hint: it follows a counter that each title moves by at
\* most one up (some positive keyword occurs in it) and at most one down
\* (some negative keyword occurs in it)
C27_HintFollowsTitleCounter ==
  kpc = "done" =>
    LET up == Cardinality({i \in 1..Len(candidate.items) :
                 KeywordMatches(candidate.items[i].title,
                                positive_keywords) > 0})
        down == Cardinality({i \in 1..Len(candidate.items) :
                   KeywordMatches(candidate.items[i].title,
                                  negative_keywords) > 0})
    IN /\ schema.sentiment_hint = "positive" <=> up - down > 1
       /\ schema.sentiment_hint = "negative" <=> up - down < -1
       /\ schema.sentiment_hint = "None" <=> up - down \in -1..1

\* two titles with a positive keyword each give the hint "positive"
C27_PositiveWitness ==
  /\ kpc = "done"
  /\ Len(candidate.items) = 2
  /\ candidate.items[1].title = Title_BTC_launch
  /\ candidate.items[2].title = Title_profit_surge
  /\ schema.sentiment_hint = "positive"

(***************************************************************************)
(* NEAR DUPLICATES ACROSS SOURCES  (src/api/news_fetch.py, line 130)       *)
(***************************************************************************)
\* C28: the near-duplicate check compares a candidate only with the titles
\* accepted earlier in the same source batch: an item dropped as a near
\* duplicate is near to an item collected from its own source, never only
\* to items of another source of the run
C28_NearDuplicateWithinSourceBatch ==
  last_entry.outcome = "near_duplicate" => last_entry.same_source

\* an item of the second source is dropped as a near duplicate while
\* everything collected came from the first source
C28_CrossSourceDrop ==
  /\ last_entry.outcome = "near_duplicate"
  /\ source_i = 2
  /\ \A i \in 1..Len(collected_items) :
       collected_items[i].source = IngestSources[1]

(***************************************************************************)
(* REPEATED SWEEPS OF A LARGE STORE  (src/api/admin_cleanup.py, lines      *)
(* 30-48; src/src/storage.py, lines 68-77)                                 *)
(*                                                                         *)
(* The records under a prefix are counted, not listed: `expired` of them   *)
(* are past their time to live at every sweep, `other` are not (younger    *)
(* records and records without created_at).  Nothing is written between    *)
(* the sweeps, and every sweep is a non-dry run.                           *)
(***************************************************************************)
MaxExpired == 2

\* how many records of the other kind a prefix may hold: none, one fewer
\* than the scan limit, more than the scan limit
OtherCounts == {0, ScanLimit - 1, ScanLimit + 1}

Populations == [expired : 0..MaxExpired, other : OtherCounts]

\* LocalStorage.list(prefix, limit): the walk stops after `limit` files, in
\* whatever order the directory delivers them; how many of the files it
\* delivered may be expired ones
ListedExpired(population, limit) ==
  LET n == Min(limit, population.expired + population.other)
  IN Max(0, n - population.other)..Min(population.expired, n)

nonLargeVars == <<limiterVars, dedupeVars, clusterVars, fetchVars,
                  storageVars, analyzeVars, sweepVars, ingestVars,
                  recallVars, marketVars, canonVars, titleVars, schemaVars>>

\* cleanup is called with dry_run false
LargeInit ==
  /\ held \in [1..Len(PREFIXES) -> Populations]
  /\ lpc = "scan"
  /\ lprefix = 1
  /\ listed = <<>>
  /\ LimiterStart /\ clock = 0 /\ DedupeStart /\ ClusterStart /\ FetchStart
  /\ StorageStart /\ AnalyzeStart /\ SweepStart /\ IngestStart
  /\ RecallStart /\ MarketStart /\ CanonStart /\ TitleStart /\ SchemaStart

\* lines 30-48, one prefix: the keys are listed and every expired record
\* among them is deleted
ScanPrefix ==
  /\ lpc = "scan"
  /\ lprefix <= Len(PREFIXES)
  /\ \E x \in ListedExpired(held[lprefix], ScanLimit) :
       /\ listed' =
            [expired |-> x,
             other |-> Min(ScanLimit, held[lprefix].expired
                                        + held[lprefix].other) - x]
       /\ held' = [held EXCEPT ![lprefix].expired = @ - x]
  /\ lprefix' = lprefix + 1
  /\ UNCHANGED <<lpc, nonLargeVars>>

\* lines 49-51
ScanReturn ==
  /\ lpc = "scan"
  /\ lprefix > Len(PREFIXES)
  /\ lpc' = "done"
  /\ UNCHANGED <<held, lprefix, listed, nonLargeVars>>

\* the sweep is run again
ScanAgain ==
  /\ lpc = "done"
  /\ lpc' = "scan"
  /\ lprefix' = 1
  /\ listed' = <<>>
  /\ UNCHANGED <<held, nonLargeVars>>

LargeNext == ScanPrefix \/ ScanReturn \/ ScanAgain

\* the sweep is repeated for ever, and each sweep runs to its end
SpecSweepRepeated ==
  LargeInit /\ [][LargeNext]_vars /\ WF_vars(LargeNext)

NoExpiredLeft == \A p \in 1..Len(PREFIXES) : held[p].expired = 0

\* C29: when the non-dry sweep is repeated and nothing is written, every
\* expired record under each prefix is deleted in the end, also under a
\* prefix that holds more keys than the scan limit and whose other records
\* alone exceed it
C29_ExpiredDeletedInTheEnd == <>NoExpiredLeft

\* what holds: under the prefixes whose other records number fewer than the
\* scan limit, every expired record is deleted in the end
C29_DeletedWhereOthersBelowLimit ==
  \A p \in 1..Len(PREFIXES) :
    held[p].other < ScanLimit => <>(held[p].expired = 0)

\* a sweep listed 1000 keys under a prefix of 1001 other records and two
\* expired ones, none of the 1000 expired
C29_ExpiredNotListed ==
  /\ lpc = "scan"
  /\ lprefix = 2
  /\ held[1] = [expired |-> MaxExpired, other |-> ScanLimit + 1]
  /\ listed = [expired |-> 0, other |-> ScanLimit]

(***************************************************************************)
(* cluster_news ON A REORDERED INPUT  (src/src/confirm.py, lines 104-123)  *)
(***************************************************************************)
\* the orders the items of a list can be passed in
Reorderings(its) ==
  { [i \in 1..Len(its) |-> its[p[i]]] :
      p \in { q \in [1..Len(its) -> 1..Len(its)] :
                \A i, j \in 1..Len(its) : q[i] = q[j] => i = j } }

\* cluster_news is called again with the same items in some order
ClusterCallPermuted ==
  /\ cpc = "done"
  /\ ~recalled
  /\ recalled' = TRUE
  /\ earlier' = returned
  /\ items' \in Reorderings(items)
  /\ clusters' = FreshClusters(clusters)
  /\ sorted_items' = <<>>
  /\ cursor' = 0
  /\ placed' = <<>>
  /\ returned' = <<>>
  /\ cpc' = "sort"
  /\ UNCHANGED <<window_minutes, similarity_threshold>>
  /\ UNCHANGED <<limiterVars, dedupeVars, fetchVars, storageVars, analyzeVars,
                 sweepVars, ingestVars, marketVars, canonVars, laterVars>>

PermutedNext == Sort \/ Attach \/ Open \/ Return \/ ClusterCallPermuted

SpecPermuted == RecallInit /\ [][PermutedNext]_vars

\* the members (by URL) and the canonical title of every returned cluster
MembersAndTitles(schemas) ==
  { [members |-> {schemas[i].links[k] : k \in 1..Len(schemas[i].links)},
     canonical_title |-> schemas[i].canonical_title] :
      i \in 1..Len(schemas) }

\* C30: cluster_news treats its input as an unordered collection: called on
\* the same items in another order, also when some share their
\* published_at, it returns clusters of the same membership and the same
\* canonical titles (and, the id being taken from the opening member, the
\* same cluster ids)
C30_OrderOfInputIrrelevant ==
  (cpc = "done" /\ recalled) =>
    MembersAndTitles(returned) = MembersAndTitles(earlier)

\* what holds: items with pairwise different published_at give the very
\* same clusters in whatever order they are passed
C30_DistinctTimesSameResult ==
  (/\ cpc = "done"
   /\ recalled
   /\ \A i, j \in 1..Len(items) :
        items[i].published_at = items[j].published_at => i = j)
    => returned = earlier

\* two items published at different times, passed in both orders, end in
\* one cluster both times
C30_DistinctTimesWitness ==
  /\ cpc = "done"
  /\ recalled
  /\ Len(items) = 2
  /\ items[1].published_at > items[2].published_at
  /\ items[1].url = 2
  /\ Len(returned) = 1
  /\ returned = earlier

(***************************************************************************)
(* THE KEYS OF THE CLUSTERS OF ONE RESPONSE  (analyze_news.py, 24-33)      *)
(***************************************************************************)
\* what get_json returns for the key after put_json stored the record there
StoredAs(key, record) == put_json(EmptyStorage, key, record)[key]

\* C31: after analyze returned, every cluster of the response is stored
\* under its own key news/clustered/{day of first_seen}/{cluster_id}.json
\* and is read back from there with its data: no two clusters of one
\* response share a key, so none overwrites another
C31_EveryClusterUnderItsOwnKey ==
  (apc = "done" /\ status = 200) =>
    /\ \A i \in 1..Len(response) :
         get_json(store, ClusterKey(response[i]))
           = StoredAs(ClusterKey(response[i]), ClusterRecord(response[i]))
    /\ \A i, j \in 1..Len(response) :
         ClusterKey(response[i]) = ClusterKey(response[j]) => i = j

\* what holds: the last cluster written under a key is read back from it,
\* and clusters with different keys are all read back
C31_LastWriteUnderKeyReadBack ==
  (apc = "done" /\ status = 200) =>
    \A i \in 1..Len(response) :
      (\A j \in (i + 1)..Len(response) :
         ClusterKey(response[j]) # ClusterKey(response[i]))
        => get_json(store, ClusterKey(response[i]))
             = StoredAs(ClusterKey(response[i]), ClusterRecord(response[i]))

\* two clusters of one response, first seen on the same day, whose opening
\* items have hashes with the same first 12 characters: one record is stored
C31_SharedKeyWitness ==
  /\ apc = "done"
  /\ status = 200
  /\ Len(response) = 2
  /\ response[1].links # response[2].links
  /\ ClusterKey(response[1]) = ClusterKey(response[2])
  /\ Cardinality(DOMAIN store) = 1

(***************************************************************************)
(* A SWEEP RIGHT AFTER A WRITE  (news_fetch.py 135-143, analyze_news.py    *)
(* 24-33, admin_cleanup.py 23-51)                                          *)
(***************************************************************************)
\* the clock when analyze has just stored its clusters: a day, or thirty
\* days, after the earliest published_at of the model's items
AnalyzeWriteTimes == {SecondsPerDay, 30 * SecondsPerDay}

\* fetch_news or analyze has returned and cleanup is called, not as a dry
\* run, while the clock still reads the time of the write
SweepAfterWrite ==
  /\ spc = "idle"
  /\ \/ ipc = "done" /\ now_utc' = IngestNow
     \/ apc = "done" /\ status = 200 /\ now_utc' \in AnalyzeWriteTimes
  /\ dry_run' = FALSE
  /\ spc' = "list"
  /\ prefix_i' = 1
  /\ keys' = <<>>
  /\ deleted' = <<>>
  /\ kept' = 0
  /\ store0' = store
  /\ visited' = <<>>
  /\ UNCHANGED <<store, prior>>
  /\ UNCHANGED nonSweepVars

WriteThenSweepInit == IngestInit \/ AnalyzeInit

WriteThenSweepNext ==
  \/ IngestSource
  \/ IngestDrop
  \/ IngestTypeError
  \/ IngestAbort
  \/ IngestDuplicate
  \/ IngestNearDuplicate
  \/ IngestKeep
  \/ IngestEndSource
  \/ IngestReturn
  \/ AnalyzeNext
  \/ SweepAfterWrite
  \/ SweepList
  \/ SweepExpire
  \/ SweepKeep
  \/ SweepNextPrefix
  \/ SweepReturn

SpecWriteThenSweep == WriteThenSweepInit /\ [][WriteThenSweepNext]_vars

\* C32: the sweep deletes a record only when at least ttl_days whole days
\* have passed since the record was written: a sweep that runs right after
\* ingestion (ttl 14 days) or clustering (ttl 30 days) wrote its records
\* deletes none of them
C32_KeptBySweepRightAfterWrite ==
  spc \in {"list", "key", "done"} => deleted = <<>> /\ store = store0

\* what holds: a sweep right after ingestion deletes nothing, and a sweep
\* right after clustering deletes exactly the clusters whose first_seen lies
\* 30 whole days or more before it
C32_DeletedByAgeOfFirstSeen ==
  spc = "done" =>
    /\ ipc = "done" => deleted = <<>> /\ store = store0
    /\ apc = "done" =>
         \A k \in DOMAIN store0 :
           (k \notin DOMAIN store)
             <=> (now_utc - store0[k].first_seen) \div SecondsPerDay >= 30

\* a sweep right after ingestion stored an item kept it
C32_IngestWitness ==
  /\ spc = "done"
  /\ ipc = "done"
  /\ kept > 0
  /\ store = store0

\* a sweep right after clustering deleted the cluster just stored
C32_DeletedAtOnce ==
  /\ spc = "done"
  /\ apc = "done"
  /\ store0 # EmptyStorage
  /\ store = EmptyStorage

(***************************************************************************)
(* THE ITEMS ONE RUN RETURNS  (news_fetch.py 108-147, dedupe.py 17-30)     *)
(***************************************************************************)
\* C33: in the list one fetch_news run returns, no two items have the same
\* canonical URL and no two have the same pair (first 5000 characters of the
\* content, normalized title), whatever sources they came from
C33_ReturnedItemsDistinct ==
  \A i, j \in 1..Len(collected_items) :
    i # j =>
      /\ collected_items[i].url # collected_items[j].url
      /\ PairOf(collected_items[i]) # PairOf(collected_items[j])

\* the run returned two items, one of each source, and the second source
\* repeated the URL or the pair of the first source's item, which was
\* rejected
C33_Witness ==
  /\ ipc = "done"
  /\ last_entry.outcome = "dedupe"
  /\ last_entry.seen
  /\ Len(collected_items) = 1
  /\ collected_items[1].source = IngestSources[1]
  /\ source_i = 2

(***************************************************************************)
(* A LATER CLUSTERING REQUEST  (analyze_news.py 18-35, storage.py 53-58)   *)
(***************************************************************************)
\* analyze is called again: the request carries the items of the one before
\* and one more
AnalyzeAgain ==
  /\ apc = "done"
  /\ status = 200
  /\ ~recalled
  /\ Len(request.items) < MaxAnalyzeItems
  /\ \E c \in AnalyzeItemChoices :
       request' =
         [request EXCEPT !.items =
            Append(@, [title |-> c.title, source |-> "coindesk",
                       published_at |-> c.published_at,
                       url |-> Len(request.items) + 1,
                       aware |-> c.aware, hash |-> c.hash])]
  /\ recalled' = TRUE
  /\ earlier' = response
  /\ apc' = "validate"
  /\ response' = <<>>
  /\ stored' = 0
  /\ status' = 0
  /\ UNCHANGED <<store, limiterVars, dedupeVars, clusterVars, fetchVars,
                 sweepVars, ingestVars, marketVars, canonVars, laterVars>>

AnalyzeTwiceNext == AnalyzeNext \/ AnalyzeAgain

SpecAnalyzeTwice == AnalyzeInit /\ [][AnalyzeTwiceNext]_vars

\* C34: a stored record is never changed in place: the payload under a key
\* that holds a record stays what it is through every later step of a
\* clustering request (the key may only be deleted, by the sweep)
C34_StoredRecordNeverChanged ==
  [][\A k \in DOMAIN store :
       k \in DOMAIN store' => store'[k] = store[k]]_vars

\* what holds: a step of analyze deletes no key
C34_AnalyzeDeletesNothing ==
  [][DOMAIN store \subseteq DOMAIN store']_vars

\* the first request stored one cluster; the second request, with one more
\* item in that cluster, stored another record under the same key
C34_LaterRequestOverwrites ==
  /\ recalled
  /\ apc = "done"
  /\ status = 200
  /\ Len(earlier) = 1
  /\ Len(response) = 1
  /\ ClusterKey(earlier[1]) = ClusterKey(response[1])
  /\ Len(response[1].links) = 2
  /\ get_json(store, ClusterKey(earlier[1]))
       # StoredAs(ClusterKey(earlier[1]), ClusterRecord(earlier[1]))

(***************************************************************************)
(* THE TITLE OF A CLUSTER IS THAT OF ITS OPENING ITEM                      *)
(* (confirm.py, lines 43-47 and 107-121)                                   *)
(***************************************************************************)
\* C35: in every state of cluster_news the canonical title of every cluster
\* is the title of the cluster's first member, whatever was attached later
\* and with whatever similarity, and so it is in the clusters returned
C35_TitleOfOpeningItem ==
  /\ \A j \in 1..Len(clusters) :
       /\ clusters[j].items # <<>>
       /\ clusters[j].canonical_title = clusters[j].items[1].title
  /\ cpc = "done" =>
       /\ Len(returned) = Len(clusters)
       /\ \A j \in 1..Len(returned) :
            returned[j].canonical_title = clusters[j].items[1].title

\* the reason given: the opening item is recorded with 100, and no recorded
\* similarity is above 100
C35_OpeningSimilarityIsTheMaximum ==
  \A j \in 1..Len(clusters) :
    /\ clusters[j].similarities[1] = Frac(100, 1)
    /\ \A k \in 1..Len(clusters[j].similarities) :
         ~FracLess(Frac(100, 1), clusters[j].similarities[k])

\* cluster_news returned a cluster of three members: the second was attached
\* with a similarity below 100, the third, of another title than the first,
\* with a similarity above that of the second
C35_Witness ==
  /\ cpc = "done"
  /\ \E j \in 1..Len(clusters) :
       /\ Len(clusters[j].items) = 3
       /\ FracLess(clusters[j].similarities[2], clusters[j].similarities[3])
       /\ clusters[j].items[3].title # clusters[j].items[1].title
       /\ returned[j].canonical_title = clusters[j].items[1].title

(***************************************************************************)
(* THE TIME SPAN OF A CLUSTER  (confirm.py, lines 49-55 and 104-123)       *)
(***************************************************************************)
\* first_seen of the cluster is the published_at of its opening item, and
\* every member lies in [first_seen, first_seen + window_minutes * 60]
SpanAnchored(cluster, wm) ==
  /\ first_seen(cluster) = cluster.items[1].published_at
  /\ \A k \in 1..Len(cluster.items) :
       /\ first_seen(cluster) <= cluster.items[k].published_at
       /\ cluster.items[k].published_at <= first_seen(cluster) + wm * 60
  /\ first_seen(cluster) <= last_seen(cluster)
  /\ last_seen(cluster) <= first_seen(cluster) + wm * 60

\* C36: for every cluster, at every step of cluster_news and in its output,
\* first_seen is the published_at of the opening item and never changes,
\* every member's published_at lies within the window after first_seen, and
\* so first_seen <= last_seen <= first_seen + window_minutes * 60
C36_SpanWithinWindowOfOpeningItem ==
  /\ [](/\ \A j \in 1..Len(clusters) :
             SpanAnchored(clusters[j], window_minutes)
        /\ \A j \in 1..Len(returned) :
             /\ returned[j].first_seen = clusters[j].items[1].published_at
             /\ returned[j].first_seen <= returned[j].last_seen
             /\ returned[j].last_seen
                  <= returned[j].first_seen + window_minutes * 60)
  /\ [][\A j \in 1..Len(clusters) :
          first_seen(clusters'[j]) = first_seen(clusters[j])]_vars

\* cluster_news returned a cluster whose last member was published exactly
\* window_minutes after the opening item
C36_Witness ==
  /\ cpc = "done"
  /\ \E j \in 1..Len(clusters) :
       /\ Len(clusters[j].items) >= 2
       /\ returned[j].first_seen = clusters[j].items[1].published_at
       /\ returned[j].last_seen = returned[j].first_seen + window_minutes * 60

(***************************************************************************)
(* WHAT ONE add() CHANGES  (dedupe.py, lines 17-30)                        *)
(***************************************************************************)
\* the dict after the step is the dict before with exactly one more key
OneMoreKey(before, after) ==
  /\ DOMAIN before \subseteq DOMAIN after
  /\ Cardinality(DOMAIN after) = Cardinality(DOMAIN before) + 1
  /\ \A k \in DOMAIN before : after[k] = before[k]

\* C37: an add() that is rejected leaves both maps as they are, an add()
\* that is accepted inserts exactly one URL hash and one content hash; after
\* any sequence of calls the two maps have the same size, the number of
\* accepted calls
C37_AddChangesBothMapsOrNeither ==
  /\ [][IF lastAdd'.accepted
          THEN /\ OneMoreKey(url_hashes, url_hashes')
               /\ OneMoreKey(content_hashes, content_hashes')
          ELSE /\ url_hashes' = url_hashes
               /\ content_hashes' = content_hashes]_vars
  /\ [](/\ Cardinality(DOMAIN url_hashes) = Cardinality(accepted)
        /\ Cardinality(DOMAIN content_hashes) = Cardinality(accepted))

\* two calls were accepted, and the latest call, with a URL not seen before,
\* was rejected for its content: the maps hold two hashes each
C37_Witness ==
  /\ Cardinality(accepted) = 2
  /\ lastAdd.called
  /\ ~lastAdd.accepted
  /\ \A a \in accepted : CanonOf[lastAdd.url] # CanonOf[a.url]
  /\ Cardinality(DOMAIN url_hashes) = 2
  /\ Cardinality(DOMAIN content_hashes) = 2

(***************************************************************************)
(* THE NUMBER OF GRANTS IN AN INTERVAL  (rate_limit.py, lines 17-41)       *)
(***************************************************************************)
\* the grants of the key from the i-th to the j-th, counted in 1/QpsDen
\* tokens, are at most capacity + refill_rate * (the time between them)
WithinRate(k, i, j) ==
  (j - i + 1) * Amount
    <= Burst * QpsDen
         + QpsNum * (keyHist[k].grants[j] - keyHist[k].grants[i])

\* C38: on a clock that never goes back, for every key and every interval of
\* length T, the number of allow(key) calls that return true with their
\* clock reading in the interval is at most capacity + refill_rate * T,
\* however the calls of the workers interleave
C38_GrantsBoundedByRate ==
  \A k \in Keys :
    \A i, j \in 1..Len(keyHist[k].grants) :
      i <= j =>
        /\ keyHist[k].grants[i] <= keyHist[k].grants[j]
        /\ WithinRate(k, i, j)

\* a key was granted twice, the second time as early as the rate allows:
\* two grants in an interval of 2 seconds, the bound being 1 + 0.5 * 2
C38_Witness ==
  \E k \in Keys :
    /\ Len(keyHist[k].grants) = 2
    /\ keyHist[k].grants[2] - keyHist[k].grants[1] = 2
    /\ finished[k] = 3

(***************************************************************************)
(* THE BUCKETS OF OTHER KEYS  (rate_limit.py, lines 28-41 and 44-48)       *)
(***************************************************************************)
\* the bucket map the call of thread t found, without the buckets of the
\* other keys
OwnBucketOnly(t) ==
  [k \in Keys |-> IF k = arg[t] THEN snap[t][k] ELSE NoBucket]

\* C39: allow(k1) reads and changes only the bucket of k1: a step changes
\* the bucket of a key only within a call for that key, the bucket of every
\* other key keeps its tokens and updated_at, and what the call returns and
\* leaves in its bucket is what it would with no other bucket in the map
C39_OnlyOwnBucketTouched ==
  /\ [][\A k \in Keys :
          buckets'[k] # buckets[k] => (lock # NoThread /\ arg[lock] = k)]_vars
  /\ [](\A t \in Threads :
          pc[t] = "release" =>
            LET r == allow(OwnBucketOnly(t), arg[t], readAt[t].t0,
                           readAt[t].now)
            IN /\ ret[t] = r.ok
               /\ buckets[arg[t]] = r.buckets[arg[t]]
               /\ \A k \in Keys \ {arg[t]} : buckets[k] = snap[t][k])

\* one key was granted and then denied, its bucket empty; the first call of
\* the other key, at the same clock reading, was granted
C39_Witness ==
  \E k1, k2 \in Keys :
    /\ k1 # k2
    /\ finished[k1] = 2
    /\ Len(keyHist[k1].grants) = 1
    /\ buckets[k1].tokens = 0
    /\ last.key = k2
    /\ last.first
    /\ last.ok
    /\ last.now = keyHist[k1].grants[1]
    /\ buckets[k1].updated_at = last.now

(***************************************************************************)
(* THE ACCOUNT OF A SWEEP  (admin_cleanup.py, lines 23-51)                 *)
(***************************************************************************)
\* the keys the sweep has listed and read
Visited == {visited[i] : i \in 1..Len(visited)}

\* the key holds a record, and the record has a field
PresentNonEmpty(st, k) == k \in DOMAIN st /\ DOMAIN st[k] # {}

\* the listed keys whose record is present and not empty
Accountable == {k \in Visited : PresentNonEmpty(store0, k)}

\* the step handles the key: it reports the key as deleted, or it counts the
\* key as kept, and not both when the record is present and not empty;
\* neither when the record is absent or empty
AccountedOnce(k) ==
  IF ~PresentNonEmpty(store, k)
    THEN /\ deleted' = deleted
         /\ kept' = kept
         /\ store' = store
    ELSE \/ deleted' = Append(deleted, k) /\ kept' = kept
         \/ deleted' = deleted /\ kept' = kept + 1

\* C40: in the result of a completed sweep every listed key whose record is
\* present and not empty is accounted for exactly once, in the deleted keys
\* or in the kept count and never in both, so len(deleted) + kept is the
\* number of such keys; a listed key whose record is absent or empty is in
\* neither and is not deleted
C40_EveryRecordAccountedOnce ==
  /\ [][visited' # visited /\ visited' # <<>>
          => /\ visited' = Append(visited, keys[1])
             /\ keys[1] \notin Visited
             /\ AccountedOnce(keys[1])]_vars
  /\ [](spc = "done" =>
          /\ Visited = Listed
          /\ \A i, j \in 1..Len(deleted) : deleted[i] = deleted[j] => i = j
          /\ \A i \in 1..Len(deleted) : deleted[i] \in Accountable
          /\ Len(deleted) + kept = Cardinality(Accountable)
          /\ \A k \in Visited \ Accountable :
               ~InDeleted(k) /\ Untouched(k))

\* a completed sweep, not a dry run, over three listed keys: one record is
\* empty and still stored, one was deleted and one kept
C40_Witness ==
  /\ spc = "done"
  /\ ~dry_run
  /\ Cardinality(Visited) = 3
  /\ Cardinality(Accountable) = 2
  /\ Len(deleted) = 1
  /\ kept = 1
  /\ \E k \in Visited : store0[k] = <<>> /\ k \in DOMAIN store

=============================================================================
